---------------------------- MODULE Spec2Model ----------------------------
(***************************************************************************)
(* xyztiles: the tile mathematics (package tilemath), the raster           *)
(* extraction (package imagery) and the callers built on them.             *)
(*                                                                         *)
(* float64 values are modelled as fixed-point numbers                      *)
(*     [hi |-> h, lo |-> l]  =  (h * Base + l) * 10^-12,   0 <= l < Base   *)
(* The inputs the model draws lie on this grid; on it the float64          *)
(* additions, subtractions, multiplications by an integer and divisions    *)
(* by a power of two of the code are exact, and the other divisions are    *)
(* truncated to the grid, which keeps every comparison with a grid value.  *)
(* math.Atan(math.Sinh(..)) and math.Log(math.Tan(..) + 1/math.Cos(..))    *)
(* are tabulated to 10^-12; what the library's rounding leaves open is     *)
(* the variable libm.                                                      *)
(*                                                                         *)
(* Spec runs one operation on arguments drawn by Init. Serve runs the      *)
(* calls of several goroutines on one loaded BaseMap, step by step, on a   *)
(* heap of pixel buffers. A pixel is followed through its red channel;     *)
(* the tile the scaler draws is kept as the source pixels it was computed  *)
(* from.                                                                   *)
(***************************************************************************)
EXTENDS Integers, Sequences, FiniteSets, TLC

VARIABLES
    libm,      \* rounding of the math library of this build: -1, 0 or 1
    bm,        \* the imagery.BaseMap: its image, bounds, width and height
    op,        \* the operation that is called
    pc,        \* "call" before it runs, "return" after
    z, x, y,   \* its integer arguments (zoom, column, row)
    lon, lat,  \* its float64 arguments
    geo,       \* its tilemath.Bounds argument
    rect,      \* its image.Rectangle argument
    path,      \* its path argument
    data,      \* its []byte argument
    url,       \* its request path, a sequence of characters
    conn,      \* whether the connection of the request takes the response
    bounds,    \* the tilemath.Bounds it returned
    tile,      \* the tilemath.TileCoord it returned
    img,       \* the *image.RGBA it returned (NoImage for nil)
    pixel,     \* the pixel coordinate it returned
    region,    \* the image.Rectangle it returned or computed (pixelBounds)
    source,    \* the image.Image it returned or computed (sourceRegion)
    err,       \* the error it returned: the chain of messages, << >> for nil
    resp,      \* the response it wrote (the http.ResponseWriter)
    edge,      \* the longitude it returned at a far zoom, in steps below 180
    heap,      \* the pixel buffers allocated so far, the raster's first
    calls,     \* the calls in flight on the shared BaseMap, one per goroutine
    upd        \* the update command: its flags, its inputs and how far it is

vars == <<libm, bm, op, pc, z, x, y, lon, lat, geo, rect, path, data, url, conn,
          bounds, tile, img, pixel, region, source, err, resp, edge, heap, calls, upd>>

---------------------------------------------------------------------------
\* Bounds of the model

\* zoom levels 0..MaxZoom are drawn (and the two at the width of int)
MaxZoom == 3

---------------------------------------------------------------------------
\* float64 on the fixed-point grid

Base == 10^6

Fx(h, l) == [hi |-> h + (l \div Base), lo |-> l % Base]

FxInt(i) == [hi |-> i * Base, lo |-> 0]

FxAdd(a, b) == Fx(a.hi + b.hi, a.lo + b.lo)

FxNeg(a) == Fx(-a.hi, -a.lo)

FxSub(a, b) == FxAdd(a, FxNeg(b))

FxLt(a, b) == a.hi < b.hi \/ (a.hi = b.hi /\ a.lo < b.lo)

FxGt(a, b) == FxLt(b, a)

FxLe(a, b) == ~FxLt(b, a)

FxMulInt(a, k) == Fx(a.hi * k, a.lo * k)

\* a / d for an integer d > 0, truncated to the grid
FxDivInt(a, d) == [hi |-> a.hi \div d, lo |-> ((a.hi % d) * Base + a.lo) \div d]

\* int(math.Floor(a))
FxFloor(a) == a.hi \div Base

\* int(a): Go's conversion truncates toward zero
FxTrunc(a) == IF a.hi < 0 THEN -FxFloor(FxNeg(a)) ELSE FxFloor(a)

FxAbs(a) == IF a.hi < 0 THEN FxNeg(a) ELSE a

FxZero == FxInt(0)

---------------------------------------------------------------------------
\* package tilemath (src/src/tilemath/tilemath.go)

\* const MaxLatitude = 85.05112878
MaxLatitude == [hi |-> 85051128, lo |-> 780000]

\* the width of Go's int on the released platforms (amd64, arm64)
IntBits == 64

\* 1 << uint(63) is -2^63. The model compares it with columns and rows
\* only, all far above it; it is written as the least 32-bit integer, which
\* compares with them in the same way.
MinInt == -2147483647 - 1

\* n := 1 << uint(z): the shift wraps at the width of int
Shl1(s) ==
    IF s >= IntBits THEN 0
    ELSE IF s = IntBits - 1 THEN MinInt
    ELSE 2^s

NoError == << >>

ZeroBounds == [West |-> FxZero, South |-> FxZero, East |-> FxZero, North |-> FxZero]

ZeroTile == [Z |-> 0, X |-> 0, Y |-> 0]

\* a slip in tileXToLon: the division done on the integers, float64(x/n)
tileXToLon_IntDiv(tx, n) == FxSub(FxMulInt(FxInt(tx \div n), 360), FxInt(180))

\* tileXToLon: float64(x)/float64(n)*360.0 - 180.0
tileXToLon(tx, n) == FxSub(FxMulInt(FxDivInt(FxInt(tx), n), 360), FxInt(180))

\* math.Atan(math.Sinh(math.Pi * j/16)) * 180.0 / math.Pi for j = 0..16,
\* entry j+1 of the sequence
GdTable ==
    << [hi |-> 0,        lo |-> 0],
       [hi |-> 11178401, lo |-> 873712],
       [hi |-> 21943045, lo |-> 533438],
       [hi |-> 31952162, lo |-> 238025],
       [hi |-> 40979898, lo |-> 69620],
       [hi |-> 48922499, lo |-> 263758],
       [hi |-> 55776573, lo |-> 18668],
       [hi |-> 61606396, lo |-> 371386],
       [hi |-> 66513260, lo |-> 443112],
       [hi |-> 70612614, lo |-> 238019],
       [hi |-> 74019543, lo |-> 311502],
       [hi |-> 76840816, lo |-> 414431],
       [hi |-> 79171334, lo |-> 640819],
       [hi |-> 81093213, lo |-> 852608],
       [hi |-> 82676284, lo |-> 978349],
       [hi |-> 83979259, lo |-> 498862],
       [hi |-> 85051128, lo |-> 779807] >>

\* the grid of ratios the table is given on: multiples of 1/16
Sixteenth == FxDivInt(FxInt(1), 16)

\* latRad * 180.0 / math.Pi with latRad := math.Atan(math.Sinh(math.Pi * ratio)):
\* odd in ratio, as math.Sinh and math.Atan are
AtanSinhDeg(ratio) ==
    LET a == FxAbs(ratio)
        j == CHOOSE k \in 0..16 : FxMulInt(Sixteenth, k) = a
        v == GdTable[j + 1]
    IN  IF ratio.hi < 0 THEN FxNeg(v) ELSE v

\* tileYToLat: ratio := 1.0 - 2.0*float64(y)/float64(n)
tileYToLat(ty, n) ==
    LET ratio == FxSub(FxInt(1), FxDivInt(FxMulInt(FxInt(ty), 2), n))
    IN  AtanSinhDeg(ratio)

\* a slip in TileBounds: the bottom-right corner taken at row y, not y+1
TileBounds_SameRow(tz, tx, ty) ==
    IF tz < 0 THEN
        [b |-> ZeroBounds, err |-> <<"zoom level must be >= 0">>]
    ELSE
        LET n == Shl1(tz) IN
        IF tx < 0 \/ tx >= n THEN
            [b |-> ZeroBounds, err |-> <<"x tile must be in range">>]
        ELSE IF ty < 0 \/ ty >= n THEN
            [b |-> ZeroBounds, err |-> <<"y tile must be in range">>]
        ELSE
            [b |-> [West  |-> tileXToLon(tx, n),
                    South |-> tileYToLat(ty, n),
                    East  |-> tileXToLon(tx + 1, n),
                    North |-> tileYToLat(ty, n)],
             err |-> NoError]

TileBounds(tz, tx, ty) ==
    IF tz < 0 THEN
        [b |-> ZeroBounds, err |-> <<"zoom level must be >= 0">>]
    ELSE
        LET n == Shl1(tz) IN
        IF tx < 0 \/ tx >= n THEN
            [b |-> ZeroBounds, err |-> <<"x tile must be in range">>]
        ELSE IF ty < 0 \/ ty >= n THEN
            [b |-> ZeroBounds, err |-> <<"y tile must be in range">>]
        ELSE
            [b |-> [West  |-> tileXToLon(tx, n),
                    South |-> tileYToLat(ty + 1, n),
                    East  |-> tileXToLon(tx + 1, n),
                    North |-> tileYToLat(ty, n)],
             err |-> NoError]

\* float64 has a significand of 53 bits
Significand == 53

\* num/den rounded to the nearest integer, ties to the even one: the
\* rounding of every float64 operation (num >= 0, den > 0)
RoundHalfEven(num, den) ==
    LET q == num \div den
        r == num % den
    IN  IF 2 * r < den THEN q
        ELSE IF 2 * r > den THEN q + 1
        ELSE IF q % 2 = 0 THEN q
        ELSE q + 1

\* float64(x) for the column x = 2^s - k, k columns from the east end of
\* the grid of zoom s: the value is 2^s - Float64Back(k, s). Below 2^53
\* every integer is a float64; from 2^53 to 2^s the float64 values are
\* the multiples of 2^(s-53).
Float64Back(k, s) ==
    IF s <= Significand THEN k
    ELSE 2^(s - Significand) * RoundHalfEven(k, 2^(s - Significand))

\* the zoom from which a longitude step 360/2^s is below 2^-44, the
\* spacing of the float64 values between 256 and 512
FarZoom == 53

\* tileXToLon(2^s - k, 2^s) for s >= FarZoom - 6, in float64, as the number
\* of steps of 2^-44 degrees below 180: float64(x)/float64(n) is
\* 1 - Float64Back/2^s exactly, the product with 360.0 is rounded to a
\* multiple of 2^-44 (360 * 2^44 / 2^s = 45 / 2^(s-47)), and subtracting
\* 180.0 from it is exact
tileXToLonFar(k, s) == RoundHalfEven(45 * Float64Back(k, s), 2^(s - 47))

---------------------------------------------------------------------------
\* LonLatToTile (src/src/tilemath/tilemath.go)

\* latitudes off the tile edges, with math.Log(math.Tan(latRad) +
\* 1.0/math.Cos(latRad)) / math.Pi at each
MercTable ==
    << [lat |-> [hi |-> 45000000, lo |-> 0],      ratio |-> [hi |-> 280549,  lo |-> 926170]],
       [lat |-> [hi |-> 60000000, lo |-> 0],      ratio |-> [hi |-> 419200,  lo |-> 718279]],
       [lat |-> [hi |-> 85051128, lo |-> 780000], ratio |-> [hi |-> 1000000, lo |-> 12]] >>

\* y / math.Pi with y := math.Log(math.Tan(latRad) + 1.0/math.Cos(latRad)):
\* the inverse of AtanSinhDeg. At a tile edge other than the equator the
\* library's rounding (libm) decides on which side of the exact ratio the
\* result falls; at latitude 0 the result is exactly 0.
MercRatio(la) ==
    LET a == FxAbs(la)
        s == IF la.hi < 0 THEN -1 ELSE 1
    IN  IF \E k \in 0..16 : GdTable[k + 1] = a THEN
            LET j == CHOOSE k \in 0..16 : GdTable[k + 1] = a IN
            IF j = 0 THEN FxZero
            ELSE FxAdd(FxMulInt(FxMulInt(Sixteenth, j), s), Fx(0, 2 * libm))
        ELSE
            LET e == CHOOSE k \in 1..Len(MercTable) : MercTable[k].lat = a
            IN  FxMulInt(MercTable[e].ratio, s)

\* a slip in the validation: the latitude range-checked like the longitude
LonLatCheck_Latitude(llon, llat, tz) ==
    IF tz < 0 THEN <<"zoom level must be >= 0">>
    ELSE IF FxLt(llon, FxInt(-180)) \/ FxGt(llon, FxInt(180))
        THEN <<"longitude must be in range [-180, 180]">>
    ELSE IF FxLt(llat, FxInt(-90)) \/ FxGt(llat, FxInt(90))
        THEN <<"latitude must be in range [-90, 90]">>
    ELSE NoError

\* the validation of LonLatToTile: the zoom, then the longitude
LonLatCheck(llon, llat, tz) ==
    IF tz < 0 THEN <<"zoom level must be >= 0">>
    ELSE IF FxLt(llon, FxInt(-180)) \/ FxGt(llon, FxInt(180))
        THEN <<"longitude must be in range [-180, 180]">>
    ELSE NoError

\* a slip in the clamping: the southern branch assigns +MaxLatitude
ClampLatitude_SignSlip(llat) ==
    LET lat1 == IF FxGt(llat, MaxLatitude) THEN MaxLatitude ELSE llat
    IN  IF FxLt(lat1, FxNeg(MaxLatitude)) THEN MaxLatitude ELSE lat1

\* Clamp latitude to Web Mercator bounds
ClampLatitude(llat) ==
    LET lat1 == IF FxGt(llat, MaxLatitude) THEN MaxLatitude ELSE llat
    IN  IF FxLt(lat1, FxNeg(MaxLatitude)) THEN FxNeg(MaxLatitude) ELSE lat1

\* a different bucketing: a point on an edge goes to the tile that ends there
FloorTile_EndsAt(f, n) == -FxFloor(FxNeg(FxMulInt(f, n))) - 1

\* int(math.Floor(nf * f)): floor bucketing, no epsilon
FloorTile(f, n) == FxFloor(FxMulInt(f, n))

LonLatToTile(llon, llat, tz) ==
    IF LonLatCheck(llon, llat, tz) # NoError THEN
        [t |-> ZeroTile, err |-> LonLatCheck(llon, llat, tz)]
    ELSE
        LET lat2 == ClampLatitude(llat)
            n == Shl1(tz)
            fx == FxDivInt(FxAdd(llon, FxInt(180)), 360)
            xtile == FloorTile(fx, n)
            fy == FxDivInt(FxSub(FxInt(1), MercRatio(lat2)), 2)
            ytile == FloorTile(fy, n)
            x1 == IF xtile >= n THEN n - 1 ELSE xtile
            y1 == IF ytile >= n THEN n - 1 ELSE ytile
            x2 == IF x1 < 0 THEN 0 ELSE x1
            y2 == IF y1 < 0 THEN 0 ELSE y1
        IN  [t |-> [Z |-> tz, X |-> x2, Y |-> y2], err |-> NoError]

---------------------------------------------------------------------------
\* package imagery (src/unnamed/part_000)

\* const TileSize = 512
TileSize == 512

NoImage == [W |-> 0, H |-> 0, drawn |-> FALSE]

\* image.Rect: the rectangle with its coordinates put in order
Rect(x0, y0, x1, y1) ==
    [MinX |-> IF x0 > x1 THEN x1 ELSE x0,
     MinY |-> IF y0 > y1 THEN y1 ELSE y0,
     MaxX |-> IF x0 > x1 THEN x0 ELSE x1,
     MaxY |-> IF y0 > y1 THEN y0 ELSE y1]

RectEmpty(r) == r.MinX >= r.MaxX \/ r.MinY >= r.MaxY

\* image.ZR, the zero rectangle
ZR == Rect(0, 0, 0, 0)

Dx(r) == r.MaxX - r.MinX

Dy(r) == r.MaxY - r.MinY

\* Rectangle.Intersect: the zero rectangle when the two do not overlap
Intersect(r, s) ==
    LET t == [MinX |-> IF r.MinX < s.MinX THEN s.MinX ELSE r.MinX,
              MinY |-> IF r.MinY < s.MinY THEN s.MinY ELSE r.MinY,
              MaxX |-> IF r.MaxX > s.MaxX THEN s.MaxX ELSE r.MaxX,
              MaxY |-> IF r.MaxY > s.MaxY THEN s.MaxY ELSE r.MaxY]
    IN  IF RectEmpty(t) THEN ZR ELSE t

\* the pixels of a rectangle
Points(r) ==
    IF RectEmpty(r) THEN {}
    ELSE (r.MinX..(r.MaxX - 1)) \X (r.MinY..(r.MaxY - 1))

\* a decoded image: its colour type, whether its type has a SubImage method,
\* and its bounds. jpeg.Decode gives *image.YCbCr (with SubImage); the
\* package's tests build *image.RGBA and wrap images in a type without it.
Image(kind, sub, w, h) == [kind |-> kind, sub |-> sub, Rect |-> Rect(0, 0, w, h)]

\* the nil *BaseMap
NoBaseMap ==
    [nil |-> TRUE, img |-> Image("nil", FALSE, 0, 0), bounds |-> ZR,
     width |-> 0, height |-> 0]

\* bounds := img.Bounds(); &BaseMap{img, bounds, bounds.Dx(), bounds.Dy()}
NewBaseMap(image) ==
    [nil |-> FALSE, img |-> image, bounds |-> image.Rect,
     width |-> Dx(image.Rect), height |-> Dy(image.Rect)]

\* the stored sample of the raster at (px, py), a gradient along the row as
\* in createTestImage: R of an RGBA pixel, Y of a YCbCr pixel (Cr = 127)
Sample(image, px, py) == (px * 255) \div Dx(image.Rect)

\* the red channel of At(px, py).RGBA(), 16 bits, from the stored uint8
\* sample: color.RGBA and color.Gray give the sample times 0x101;
\* color.YCbCr converts at 16 bits, (Y*0x10101 + 91881*(Cr-128)) >> 8,
\* saturated to [0, 0xffff]
Red16Of(kind, sample) ==
    LET v == sample % 256 IN
    IF kind = "YCbCr" THEN
        LET r == v * 65793 + 91881 * (127 - 128) IN
        IF r < 0 THEN 0
        ELSE IF r >= 2^24 THEN 65535
        ELSE r \div 256
    ELSE v * 257

Red16(image, px, py) == Red16Of(image.kind, Sample(image, px, py))

\* what an *image.RGBA gives back for a colour drawn into it: 8 bits are
\* kept, uint8(red >> 8), and RGBA() returns the byte times 0x101
Stored8(red) == (red \div 256) * 257

\* a different rounding in lonToPixelX: math.Floor before the conversion
lonToPixelX_Floor(plon, imageWidth) ==
    FxFloor(FxMulInt(FxDivInt(FxAdd(plon, FxInt(180)), 360), imageWidth))

\* lonToPixelX: int((lon + 180.0) / 360.0 * float64(imageWidth))
lonToPixelX(plon, imageWidth) ==
    FxTrunc(FxMulInt(FxDivInt(FxAdd(plon, FxInt(180)), 360), imageWidth))

\* a slip in latToPixelY: the latitude not flipped, y growing northwards
latToPixelY_NotFlipped(plat, imageHeight) ==
    FxTrunc(FxMulInt(FxDivInt(FxAdd(plat, FxInt(90)), 180), imageHeight))

\* latToPixelY: int((90.0 - lat) / 180.0 * float64(imageHeight))
latToPixelY(plat, imageHeight) ==
    FxTrunc(FxMulInt(FxDivInt(FxSub(FxInt(90), plat), 180), imageHeight))

\* a slip in clamp: the upper limit taken as the last pixel, max - 1
clamp_LastPixel(value, min, max) ==
    IF value < min THEN min
    ELSE IF value > max - 1 THEN max - 1
    ELSE value

\* a slip in clamp: the upper limit forgotten
clamp_MinOnly(value, min, max) ==
    IF value < min THEN min ELSE value

clamp(value, min, max) ==
    IF value < min THEN min
    ELSE IF value > max THEN max
    ELSE value

\* a slip in geoBoundsToPixelBounds: the rectangle built as a literal,
\* image.Rectangle{Min, Max}, with the top taken from South and the bottom
\* from North
geoBoundsToPixelBounds_Unordered(b, g) ==
    LET x0 == clamp(lonToPixelX(g.West, b.width), 0, b.width)
        x1 == clamp(lonToPixelX(g.East, b.width), 0, b.width)
        y0 == clamp(latToPixelY(g.South, b.height), 0, b.height)
        y1 == clamp(latToPixelY(g.North, b.height), 0, b.height)
    IN  [MinX |-> x0, MinY |-> y0, MaxX |-> x1, MaxY |-> y1]

\* a slip in geoBoundsToPixelBounds: the right and bottom edges taken as
\* the last pixel inside, one past the pixel of East and South
geoBoundsToPixelBounds_Inclusive(b, g) ==
    LET x0 == clamp(lonToPixelX(g.West, b.width), 0, b.width)
        x1 == clamp(lonToPixelX(g.East, b.width) + 1, 0, b.width)
        y0 == clamp(latToPixelY(g.North, b.height), 0, b.height)
        y1 == clamp(latToPixelY(g.South, b.height) + 1, 0, b.height)
    IN  Rect(x0, y0, x1, y1)

geoBoundsToPixelBounds(b, g) ==
    LET x0 == clamp(lonToPixelX(g.West, b.width), 0, b.width)
        x1 == clamp(lonToPixelX(g.East, b.width), 0, b.width)
        y0 == clamp(latToPixelY(g.North, b.height), 0, b.height)
        y1 == clamp(latToPixelY(g.South, b.height), 0, b.height)
    IN  Rect(x0, y0, x1, y1)

\* no image.Image (nil)
NoRegion == [Rect |-> ZR, view |-> FALSE, at |-> << >>, panic |-> FALSE]

\* SubImage: a view of the pixels of r inside the image, sharing its
\* storage; for an empty intersection a new empty image (zero bounds)
SubImage(image, r) ==
    LET t == Intersect(r, image.Rect) IN
    IF RectEmpty(t) THEN [Rect |-> ZR, view |-> FALSE, at |-> << >>, panic |-> FALSE]
    ELSE [Rect |-> t, view |-> TRUE,
          at |-> [p \in Points(t) |-> Red16(image, p[1], p[2])],
          panic |-> FALSE]

\* image.NewRGBA(r) panics on a rectangle of negative width or height
NewRGBAPanics(r) == Dx(r) < 0 \/ Dy(r) < 0

\* image.NewRGBA(r) and draw.Draw(region, r, img, r.Min, draw.Src): each
\* pixel of r inside the image is stored as 8-bit RGBA, uint8(red >> 8), and
\* read back by RGBA() as that byte times 0x101
CopyRegion(image, r) ==
    [Rect |-> r, view |-> FALSE,
     at |-> [p \in Points(r) |->
                IF p \in Points(image.Rect)
                    THEN Stored8(Red16(image, p[1], p[2])) ELSE 0],
     panic |-> NewRGBAPanics(r)]

\* extractRegion: SubImage when the image's type has it, else the copy
extractRegion(b, r) ==
    IF b.img.sub THEN SubImage(b.img, r) ELSE CopyRegion(b.img, r)

\* xdraw.CatmullRom.Scale(tile, tile.Bounds(), src, src.Bounds(), Over, nil):
\* returns at once, the tile untouched, when the source rectangle is empty
Scale(dst, from) ==
    IF Dx(from.Rect) <= 0 \/ Dy(from.Rect) <= 0 THEN dst
    ELSE [dst EXCEPT !.drawn = TRUE]

\* a slip in ExtractTile: the cause formatted away, the error not wrapped
ExtractTile_CauseLost(b, tz, tx, ty) ==
    LET r == TileBounds(tz, tx, ty) IN
    IF r.err # NoError THEN
        [img |-> NoImage, err |-> <<"invalid tile coordinates">>,
         region |-> ZR, source |-> NoRegion, panic |-> FALSE]
    ELSE
        LET pixelBounds == geoBoundsToPixelBounds(b, r.b)
            sourceRegion == extractRegion(b, pixelBounds)
            new == [W |-> TileSize, H |-> TileSize, drawn |-> FALSE]
        IN  [img |-> Scale(new, sourceRegion), err |-> NoError,
             region |-> pixelBounds, source |-> sourceRegion,
             panic |-> sourceRegion.panic]

\* a slip in ExtractTile: the tile allocated at the size of the source
\* region
ExtractTile_RegionSized(b, tz, tx, ty) ==
    LET r == TileBounds(tz, tx, ty) IN
    IF r.err # NoError THEN
        [img |-> NoImage, err |-> <<"invalid tile coordinates">> \o r.err,
         region |-> ZR, source |-> NoRegion, panic |-> FALSE]
    ELSE
        LET pixelBounds == geoBoundsToPixelBounds(b, r.b)
            sourceRegion == extractRegion(b, pixelBounds)
            new == [W |-> Dx(pixelBounds), H |-> Dy(pixelBounds), drawn |-> FALSE]
        IN  [img |-> Scale(new, sourceRegion), err |-> NoError,
             region |-> pixelBounds, source |-> sourceRegion,
             panic |-> sourceRegion.panic]

\* ExtractTile: its results, its locals pixelBounds and sourceRegion, and
\* whether it panicked on the way
ExtractTile(b, tz, tx, ty) ==
    LET r == TileBounds(tz, tx, ty) IN
    IF r.err # NoError THEN
        [img |-> NoImage, err |-> <<"invalid tile coordinates">> \o r.err,
         region |-> ZR, source |-> NoRegion, panic |-> FALSE]
    ELSE
        LET pixelBounds == geoBoundsToPixelBounds(b, r.b)
            sourceRegion == extractRegion(b, pixelBounds)
            new == [W |-> TileSize, H |-> TileSize, drawn |-> FALSE]
        IN  [img |-> Scale(new, sourceRegion), err |-> NoError,
             region |-> pixelBounds, source |-> sourceRegion,
             panic |-> sourceRegion.panic]

---------------------------------------------------------------------------
\* LoadJPEG, LoadJPEGFromBytes (src/unnamed/part_000)

\* the bytes of a file or of an embedded resource: what they encode (a
\* colour JPEG, a greyscale JPEG, or something else), the size of the
\* picture, and whether the stream is there to the end
Bytes(format, w, h, complete) ==
    [format |-> format, w |-> w, h |-> h, complete |-> complete]

NoData == Bytes("", 0, 0, FALSE)

\* jpeg.Decode: the image, or nil and the decoder's error
jpegDecode(b) ==
    IF b.format \notin {"jpeg", "jpeg-grey"} THEN
        [img |-> Image("nil", FALSE, 0, 0),
         err |-> <<"invalid JPEG format: missing SOI marker">>]
    ELSE IF ~b.complete THEN
        [img |-> Image("nil", FALSE, 0, 0), err |-> <<"unexpected EOF">>]
    ELSE
        [img |-> Image(IF b.format = "jpeg" THEN "YCbCr" ELSE "Gray", TRUE, b.w, b.h),
         err |-> NoError]

\* the files os.Open finds
Files ==
    [ p \in {"world.jpg", "grey.jpg", "cut.jpg", "notes.txt", "empty.jpg"} |->
        CASE p = "world.jpg" -> Bytes("jpeg", 8, 4, TRUE)
          [] p = "grey.jpg" -> Bytes("jpeg-grey", 5, 3, TRUE)
          [] p = "cut.jpg" -> Bytes("jpeg", 8, 4, FALSE)
          [] p = "notes.txt" -> Bytes("text", 0, 0, TRUE)
          [] p = "empty.jpg" -> Bytes("", 0, 0, TRUE) ]

\* os.Open
osOpen(p) ==
    IF p \in DOMAIN Files THEN [f |-> Files[p], err |-> NoError]
    ELSE [f |-> NoData, err |-> <<"open: no such file or directory">>]

\* a slip in LoadJPEG: a BaseMap without image returned next to the
\* decoder's error
LoadJPEG_Partial(p) ==
    LET o == osOpen(p) IN
    IF o.err # NoError THEN
        [bm |-> NoBaseMap, err |-> <<"failed to open image">> \o o.err]
    ELSE
        LET d == jpegDecode(o.f) IN
        IF d.err # NoError THEN
            [bm |-> NewBaseMap(d.img), err |-> <<"failed to decode JPEG">> \o d.err]
        ELSE [bm |-> NewBaseMap(d.img), err |-> NoError]

LoadJPEG(p) ==
    LET o == osOpen(p) IN
    IF o.err # NoError THEN
        [bm |-> NoBaseMap, err |-> <<"failed to open image">> \o o.err]
    ELSE
        LET d == jpegDecode(o.f) IN
        IF d.err # NoError THEN
            [bm |-> NoBaseMap, err |-> <<"failed to decode JPEG">> \o d.err]
        ELSE [bm |-> NewBaseMap(d.img), err |-> NoError]

LoadJPEGFromBytes(b) ==
    LET d == jpegDecode(b) IN
    IF d.err # NoError THEN
        [bm |-> NoBaseMap, err |-> <<"failed to decode JPEG from bytes">> \o d.err]
    ELSE [bm |-> NewBaseMap(d.img), err |-> NoError]

---------------------------------------------------------------------------
\* Strings: a string is the sequence of its characters

Digits == <<"0", "1", "2", "3", "4", "5", "6", "7", "8", "9">>

IsDigit(c) == \E i \in 1..Len(Digits) : Digits[i] = c

DigitValue(c) == (CHOOSE i \in 1..Len(Digits) : Digits[i] = c) - 1

\* strings.HasPrefix, strings.TrimPrefix, strings.HasSuffix,
\* strings.TrimSuffix
HasPrefix(s, p) == Len(s) >= Len(p) /\ SubSeq(s, 1, Len(p)) = p

TrimPrefix(s, p) == IF HasPrefix(s, p) THEN SubSeq(s, Len(p) + 1, Len(s)) ELSE s

HasSuffix(s, p) == Len(s) >= Len(p) /\ SubSeq(s, Len(s) - Len(p) + 1, Len(s)) = p

TrimSuffix(s, p) == IF HasSuffix(s, p) THEN SubSeq(s, 1, Len(s) - Len(p)) ELSE s

\* strings.Split(s, sep) for a separator of one character: the parts
\* between the separators, empty ones included
RECURSIVE Split(_, _)
Split(s, sep) ==
    IF \A i \in 1..Len(s) : s[i] # sep THEN << s >>
    ELSE LET i == CHOOSE j \in 1..Len(s) :
                      s[j] = sep /\ \A k \in 1..(j - 1) : s[k] # sep
         IN  << SubSeq(s, 1, i - 1) >> \o Split(SubSeq(s, i + 1, Len(s)), sep)

\* the parts joined by the separator
RECURSIVE Join(_, _)
Join(parts, sep) ==
    IF Len(parts) = 0 THEN << >>
    ELSE IF Len(parts) = 1 THEN parts[1]
    ELSE parts[1] \o << sep >> \o Join(Tail(parts), sep)

\* the value of a sequence of decimal digits
RECURSIVE DecimalValue(_)
DecimalValue(ds) ==
    IF ds = << >> THEN 0
    ELSE DecimalValue(SubSeq(ds, 1, Len(ds) - 1)) * 10 + DigitValue(ds[Len(ds)])

\* the digits without their leading zeros
RECURSIVE Significant(_)
Significant(ds) ==
    IF ds # << >> /\ ds[1] = "0" THEN Significant(Tail(ds)) ELSE ds

\* the largest int has 19 digits; the model draws numbers of fewer digits
\* and numbers of more
MaxIntDigits == 19

\* strconv.Atoi: an optional sign and at least one digit, nothing else; a
\* value that does not fit an int is an error too
Atoi(s) ==
    LET signed == s # << >> /\ s[1] \in {"+", "-"}
        ds == IF signed THEN Tail(s) ELSE s
    IN  IF ds = << >> \/ \E i \in 1..Len(ds) : ~IsDigit(ds[i]) THEN
            [n |-> 0, err |-> <<"strconv.Atoi: invalid syntax">>]
        ELSE IF Len(Significant(ds)) > MaxIntDigits THEN
            [n |-> 0, err |-> <<"strconv.Atoi: value out of range">>]
        ELSE
            [n |-> IF signed /\ s[1] = "-" THEN -DecimalValue(Significant(ds))
                   ELSE DecimalValue(Significant(ds)),
             err |-> NoError]

\* the decimal digits of i >= 0
RECURSIVE DigitsOf(_)
DigitsOf(i) ==
    IF i < 10 THEN << Digits[i + 1] >>
    ELSE DigitsOf(i \div 10) \o << Digits[(i % 10) + 1] >>

\* strconv.Itoa, the %d of fmt
Itoa(i) == IF i < 0 THEN <<"-">> \o DigitsOf(-i) ELSE DigitsOf(i)

\* strings.ToLower, on the letters the model draws
Lower(c) ==
    IF c = "Y" THEN "y" ELSE IF c = "E" THEN "e" ELSE IF c = "S" THEN "s"
    ELSE IF c = "N" THEN "n" ELSE IF c = "O" THEN "o" ELSE c

ToLower(s) == [i \in 1..Len(s) |-> Lower(s[i])]

WhiteSpace == {" ", "\n", "\t", "\r"}

\* strings.TrimSpace: the white space at both ends removed
RECURSIVE TrimSpace(_)
TrimSpace(s) ==
    IF s = << >> THEN s
    ELSE IF s[1] \in WhiteSpace THEN TrimSpace(Tail(s))
    ELSE IF s[Len(s)] \in WhiteSpace THEN TrimSpace(SubSeq(s, 1, Len(s) - 1))
    ELSE s

---------------------------------------------------------------------------
\* package server (src/unnamed/part_004)

Slash == "/"

DotPng == <<".", "p", "n", "g">>

NoParse == [z |-> 0, x |-> 0, y |-> 0]

\* a slip in parseTilePath: the suffix trimmed without being required
parseTilePath_AnySuffix(p) ==
    LET parts == Split(TrimPrefix(p, << Slash >>), Slash) IN
    IF Len(parts) # 3 THEN
        [t |-> NoParse, err |-> <<"expected path format /{z}/{x}/{y}.png">>]
    ELSE
        LET pz == Atoi(parts[1])
            px == Atoi(parts[2])
            py == Atoi(TrimSuffix(parts[3], DotPng))
        IN  IF pz.err # NoError THEN
                [t |-> NoParse, err |-> <<"invalid zoom level">> \o pz.err]
            ELSE IF px.err # NoError THEN
                [t |-> NoParse, err |-> <<"invalid x coordinate">> \o px.err]
            ELSE IF py.err # NoError THEN
                [t |-> NoParse, err |-> <<"invalid y coordinate">> \o py.err]
            ELSE [t |-> [z |-> pz.n, x |-> px.n, y |-> py.n], err |-> NoError]

\* parseTilePath: (z, x, y) of a path like /{z}/{x}/{y}.png
parseTilePath(p) ==
    LET parts == Split(TrimPrefix(p, << Slash >>), Slash) IN
    IF Len(parts) # 3 THEN
        [t |-> NoParse, err |-> <<"expected path format /{z}/{x}/{y}.png">>]
    ELSE
        LET pz == Atoi(parts[1])
            px == Atoi(parts[2])
            py == Atoi(TrimSuffix(parts[3], DotPng))
        IN  IF pz.err # NoError THEN
                [t |-> NoParse, err |-> <<"invalid zoom level">> \o pz.err]
            ELSE IF px.err # NoError THEN
                [t |-> NoParse, err |-> <<"invalid x coordinate">> \o px.err]
            ELSE IF ~HasSuffix(parts[3], DotPng) THEN
                [t |-> NoParse, err |-> <<"tile path must end with .png">>]
            ELSE IF py.err # NoError THEN
                [t |-> NoParse, err |-> <<"invalid y coordinate">> \o py.err]
            ELSE [t |-> [z |-> pz.n, x |-> px.n, y |-> py.n], err |-> NoError]

StatusOK == 200
StatusBadRequest == 400
StatusNotFound == 404
StatusInternalServerError == 500

NoHeader == [ContentType |-> "", CacheControl |-> ""]

\* the http.ResponseWriter of a request: the status written (0: none yet),
\* the header map, the header as it was sent with the status, and the
\* body written
NewResponseWriter == [code |-> 0, header |-> NoHeader, sent |-> NoHeader, body |-> << >>]

\* w.WriteHeader(code): the first call sends status and header, a later
\* one is ignored
WriteHeader(w, code) ==
    IF w.code # 0 THEN w ELSE [w EXCEPT !.code = code, !.sent = w.header]

\* w.Write(..): sends status 200 and the header first if none was sent
WriteBody(w, what) ==
    LET v == WriteHeader(w, StatusOK) IN [v EXCEPT !.body = Append(v.body, what)]

\* http.Error(w, msg, code)
httpError(w, msg, code) ==
    WriteBody(WriteHeader([w EXCEPT !.header.ContentType = "text/plain; charset=utf-8"],
                          code), msg)

\* png.Encode(w, tile): writes the encoded tile; the error is that of the
\* connection
pngEncode(w, connected) ==
    [w |-> WriteBody(w, "png"),
     err |-> IF connected THEN NoError ELSE <<"write: broken pipe">>]

\* a slip in handleTileRequest: the failure of ExtractTile answered as a
\* server fault
handleTileRequest_ServerFault(b, p, connected) ==
    LET parsed == parseTilePath(p) IN
    IF parsed.err # NoError THEN
        httpError(NewResponseWriter, "Invalid tile path", StatusBadRequest)
    ELSE
        LET r == ExtractTile(b, parsed.t.z, parsed.t.x, parsed.t.y) IN
        IF r.panic THEN NewResponseWriter
        ELSE IF r.err # NoError THEN
            httpError(NewResponseWriter, "Failed to generate tile", StatusInternalServerError)
        ELSE
            LET w == [NewResponseWriter EXCEPT
                          !.header.ContentType = "image/png",
                          !.header.CacheControl = "public, max-age=86400"]
                e == pngEncode(w, connected)
            IN  IF e.err # NoError THEN
                    httpError(e.w, "Failed to encode tile", StatusInternalServerError)
                ELSE e.w

\* handleTileRequest: the response to a tile request (nothing is written
\* when the handler panics: net/http recovers and drops the connection)
handleTileRequest(b, p, connected) ==
    LET parsed == parseTilePath(p) IN
    IF parsed.err # NoError THEN
        httpError(NewResponseWriter, "Invalid tile path", StatusBadRequest)
    ELSE
        LET r == ExtractTile(b, parsed.t.z, parsed.t.x, parsed.t.y) IN
        IF r.panic THEN NewResponseWriter
        ELSE IF r.err # NoError THEN
            httpError(NewResponseWriter, "Failed to generate tile", StatusNotFound)
        ELSE
            LET w == [NewResponseWriter EXCEPT
                          !.header.ContentType = "image/png",
                          !.header.CacheControl = "public, max-age=86400"]
                e == pngEncode(w, connected)
            IN  IF e.err # NoError THEN
                    httpError(e.w, "Failed to encode tile", StatusInternalServerError)
                ELSE e.w

---------------------------------------------------------------------------
\* the update command (src/cmd/update.go)

\* reader.ReadString('\n'): the input up to and with the first line feed,
\* or all of it and io.EOF when there is none
ReadString(input) ==
    IF \E i \in 1..Len(input) : input[i] = "\n" THEN
        LET i == CHOOSE j \in 1..Len(input) :
                     input[j] = "\n" /\ \A k \in 1..(j - 1) : input[k] # "\n"
        IN  [s |-> SubSeq(input, 1, i), err |-> NoError]
    ELSE [s |-> input, err |-> <<"EOF">>]

\* a slip in the prompt [y/N]: the empty answer taken as yes
Confirmed_DefaultYes(response) ==
    LET answer == TrimSpace(ToLower(response)) IN
    answer = << >> \/ answer = <<"y">> \/ answer = <<"y", "e", "s">>

\* response = strings.TrimSpace(strings.ToLower(response)); the update
\* goes on when response is "y" or "yes"
Confirmed(response) ==
    LET answer == TrimSpace(ToLower(response)) IN
    answer = <<"y">> \/ answer = <<"y", "e", "s">>

\* the command before it runs
NewUpdate(current, detect, dry, skip, input, exe, asset) ==
    [pc |-> "detect", currentVersion |-> current, release |-> detect,
     dryRun |-> dry, yes |-> skip, stdin |-> input,
     executable |-> exe, asset |-> asset,
     updateTo |-> FALSE, ret |-> NoError]

NoUpdate ==
    [pc |-> "done", currentVersion |-> "", release |-> [err |-> NoError, found |-> FALSE, version |-> ""],
     dryRun |-> FALSE, yes |-> FALSE, stdin |-> << >>,
     executable |-> FALSE, asset |-> FALSE, updateTo |-> FALSE, ret |-> NoError]

---------------------------------------------------------------------------
\* The inputs the model draws

Zooms == (-1..MaxZoom) \cup {IntBits - 1, IntBits}

\* zoom IntBits - 1 is left out for LonLatToTile: the indices it returns
\* there are near 2^63
LonLatZooms == (-1..MaxZoom) \cup {IntBits}

Indices == -1..(2^MaxZoom)

\* the tile edges of zoom MaxZoom, and longitudes off them and out of range
LonSamples ==
    {tileXToLon(i, 2^MaxZoom) : i \in 0..(2^MaxZoom)}
    \cup {FxInt(181), FxInt(-181), FxInt(60), Fx(-122 * Base, -400000),
          Fx(180 * Base, -1), Fx(-180 * Base, 1), Fx(180 * Base, 1)}

\* the tile edges of zoom MaxZoom, +-MaxLatitude, the poles and beyond,
\* and latitudes off the edges
LatSamples ==
    {tileYToLat(i, 2^MaxZoom) : i \in 0..(2^MaxZoom)}
    \cup {MaxLatitude, FxNeg(MaxLatitude), FxInt(90), FxInt(-90),
          FxInt(100), FxInt(-100), FxAdd(MaxLatitude, Fx(0, 1)),
          FxInt(45), FxInt(-45), FxInt(60), FxInt(-60)}

\* width and height of the loaded raster
RasterSizes ==
    { [width |-> 8, height |-> 4], [width |-> 16, height |-> 8],
      [width |-> 5, height |-> 3], [width |-> 1, height |-> 1] }

\* the rasters LoadJPEG gives: decoded JPEGs of these sizes
LoadedRasters ==
    {NewBaseMap(Image("YCbCr", TRUE, s.width, s.height)) : s \in RasterSizes}

\* the BaseMaps the package's tests build by hand: an *image.RGBA, and an
\* image wrapped in a type without SubImage
TestRasters ==
    { NewBaseMap(Image("RGBA", TRUE, 8, 4)),
      NewBaseMap(Image("RGBA", FALSE, 8, 4)),
      NewBaseMap(Image("YCbCr", FALSE, 5, 3)) }

Rasters == LoadedRasters \cup TestRasters

DefaultRaster == NewBaseMap(Image("YCbCr", TRUE, 8, 4))

\* longitudes and latitudes of synthetic bounds, in and out of range
GeoLons ==
    {FxInt(-540), FxInt(-181), FxInt(-180), FxInt(-45), FxInt(60), FxInt(180), FxInt(540)}

GeoLats ==
    {FxInt(270), FxInt(100), FxInt(90), FxInt(45), FxZero, FxInt(-60), FxInt(-270)}

GeoSamples == [West : GeoLons, South : GeoLats, East : GeoLons, North : GeoLats]

\* integers written into request paths
PathInts == {-1, 0, 1, 2, IntBits}

\* a number of more digits than an int has
TooLong == [i \in 1..(MaxIntDigits + 1) |-> "9"]

\* the parts of request paths: integers as %d writes them, and what is
\* not an integer or not an int
PartSamples ==
    {Itoa(i) : i \in PathInts} \cup { <<"a">>, << >>, <<"+", "1">>, TooLong }

Extensions == { DotPng, <<".", "j", "p", "g">>, << >> }

\* no leading slash, one, or two
Leads == { << >>, << Slash >>, << Slash, Slash >> }

\* request paths of three parts, and some of two and of four
TilePaths ==
    { l \o Join(<<a, b, c \o e>>, Slash) :
        l \in Leads, a \in PartSamples, b \in PartSamples,
        c \in PartSamples, e \in Extensions }
    \cup { l \o Join(q, Slash) \o DotPng :
             l \in Leads, q \in [1..2 -> {Itoa(0), Itoa(1)}] \cup [1..4 -> {Itoa(0), Itoa(1)}] }

\* the columns of the far zooms, counted from the east end of the grid
FarColumns == 1..4

FarZooms == {FarZoom, FarZoom + 1}

\* the rectangles inside the bounds of a raster, the empty ones included
RectsIn(b) ==
    { Rect(x0, y0, x1, y1) :
        <<x0, y0, x1, y1>> \in
            { q \in (0..b.width) \X (0..b.height) \X (0..b.width) \X (0..b.height) :
                q[1] <= q[3] /\ q[2] <= q[4] } }

---------------------------------------------------------------------------
\* The state machine: Init draws the call and its arguments, one action
\* per operation runs it

InitResults ==
    /\ pc = "call"
    /\ bounds = ZeroBounds
    /\ tile = ZeroTile
    /\ img = NoImage
    /\ pixel = 0
    /\ region = ZR
    /\ source = NoRegion
    /\ err = NoError
    /\ resp = NewResponseWriter
    /\ edge = 0

InitTileBounds ==
    /\ op = "TileBounds"
    /\ libm \in {-1, 0, 1}
    /\ bm = DefaultRaster
    /\ z \in Zooms /\ x \in Indices /\ y \in Indices
    /\ lon = FxZero /\ lat = FxZero
    /\ geo = ZeroBounds /\ rect = ZR
    /\ path = "" /\ data = NoData
    /\ url = << >> /\ conn = TRUE

InitLonLatToTile ==
    /\ op = "LonLatToTile"
    /\ libm \in {-1, 0, 1}
    /\ bm = DefaultRaster
    /\ z \in LonLatZooms /\ x = 0 /\ y = 0
    /\ lon \in LonSamples /\ lat \in LatSamples
    /\ geo = ZeroBounds /\ rect = ZR
    /\ path = "" /\ data = NoData
    /\ url = << >> /\ conn = TRUE

\* the operations of package imagery do not call math.Log: libm is 0 there
InitExtractTile ==
    /\ op = "ExtractTile"
    /\ libm = 0
    /\ bm \in Rasters
    /\ z \in Zooms /\ x \in Indices /\ y \in Indices
    /\ lon = FxZero /\ lat = FxZero
    /\ geo = ZeroBounds /\ rect = ZR
    /\ path = "" /\ data = NoData
    /\ url = << >> /\ conn = TRUE

InitLonToPixelX ==
    /\ op = "lonToPixelX"
    /\ libm = 0
    /\ bm \in LoadedRasters
    /\ z = 0 /\ x = 0 /\ y = 0
    /\ lon \in LonSamples /\ lat = FxZero
    /\ geo = ZeroBounds /\ rect = ZR
    /\ path = "" /\ data = NoData
    /\ url = << >> /\ conn = TRUE

InitLatToPixelY ==
    /\ op = "latToPixelY"
    /\ libm = 0
    /\ bm \in LoadedRasters
    /\ z = 0 /\ x = 0 /\ y = 0
    /\ lon = FxZero /\ lat \in LatSamples
    /\ geo = ZeroBounds /\ rect = ZR
    /\ path = "" /\ data = NoData
    /\ url = << >> /\ conn = TRUE

InitGeoBoundsToPixelBounds ==
    /\ op = "geoBoundsToPixelBounds"
    /\ libm = 0
    /\ bm \in LoadedRasters
    /\ z = 0 /\ x = 0 /\ y = 0
    /\ lon = FxZero /\ lat = FxZero
    /\ geo \in GeoSamples /\ rect = ZR
    /\ path = "" /\ data = NoData
    /\ url = << >> /\ conn = TRUE

InitExtractRegion ==
    /\ op = "extractRegion"
    /\ libm = 0
    /\ bm \in TestRasters \cup {DefaultRaster}
    /\ z = 0 /\ x = 0 /\ y = 0
    /\ lon = FxZero /\ lat = FxZero
    /\ geo = ZeroBounds /\ rect \in RectsIn(bm)
    /\ path = "" /\ data = NoData
    /\ url = << >> /\ conn = TRUE

\* paths of files that are there, and one of none
Paths == DOMAIN Files \cup {"/nonexistent/path/image.jpg"}

\* embedded resources: the files' bytes, and JPEGs of the other sizes
Resources ==
    {Files[p] : p \in DOMAIN Files}
    \cup {Bytes("jpeg", s.width, s.height, c) : s \in RasterSizes, c \in BOOLEAN}

InitLoadJPEG ==
    /\ op = "LoadJPEG"
    /\ libm = 0
    /\ bm = NoBaseMap
    /\ z = 0 /\ x = 0 /\ y = 0
    /\ lon = FxZero /\ lat = FxZero
    /\ geo = ZeroBounds /\ rect = ZR
    /\ path \in Paths /\ data = NoData
    /\ url = << >> /\ conn = TRUE

InitLoadJPEGFromBytes ==
    /\ op = "LoadJPEGFromBytes"
    /\ libm = 0
    /\ bm = NoBaseMap
    /\ z = 0 /\ x = 0 /\ y = 0
    /\ lon = FxZero /\ lat = FxZero
    /\ geo = ZeroBounds /\ rect = ZR
    /\ path = "" /\ data \in Resources
    /\ url = << >> /\ conn = TRUE

\* tileXToLon on a column at the east end of the grid of a far zoom: x
\* counts from the east end, the column is 2^z + x
InitTileXToLon ==
    /\ op = "tileXToLon"
    /\ libm = 0
    /\ bm = DefaultRaster
    /\ z \in FarZooms /\ x \in {-k : k \in FarColumns} /\ y = 0
    /\ lon = FxZero /\ lat = FxZero
    /\ geo = ZeroBounds /\ rect = ZR
    /\ path = "" /\ data = NoData
    /\ url = << >> /\ conn = TRUE

InitParseTilePath ==
    /\ op = "parseTilePath"
    /\ libm = 0
    /\ bm = DefaultRaster
    /\ z = 0 /\ x = 0 /\ y = 0
    /\ lon = FxZero /\ lat = FxZero
    /\ geo = ZeroBounds /\ rect = ZR
    /\ path = "" /\ data = NoData
    /\ url \in TilePaths /\ conn = TRUE

\* a request on a server with a loaded raster, on a connection that takes
\* the response or one the client has left
InitHandleTileRequest ==
    /\ op = "handleTileRequest"
    /\ libm = 0
    /\ bm = DefaultRaster
    /\ z = 0 /\ x = 0 /\ y = 0
    /\ lon = FxZero /\ lat = FxZero
    /\ geo = ZeroBounds /\ rect = ZR
    /\ path = "" /\ data = NoData
    /\ url \in TilePaths /\ conn \in BOOLEAN

Init ==
    /\ InitResults
    /\ heap = << >>
    /\ calls = << >>
    /\ upd = NoUpdate
    /\ \/ InitTileBounds
       \/ InitLonLatToTile
       \/ InitExtractTile
       \/ InitLonToPixelX
       \/ InitLatToPixelY
       \/ InitGeoBoundsToPixelBounds
       \/ InitExtractRegion
       \/ InitLoadJPEG
       \/ InitLoadJPEGFromBytes
       \/ InitTileXToLon
       \/ InitParseTilePath
       \/ InitHandleTileRequest

CallTileBounds ==
    /\ pc = "call" /\ op = "TileBounds"
    /\ LET r == TileBounds(z, x, y) IN
        /\ bounds' = r.b
        /\ err' = r.err
    /\ pc' = "return"
    /\ UNCHANGED <<libm, bm, op, z, x, y, lon, lat, geo, rect, path, data, url, conn,
                   heap, calls, upd>>
    /\ UNCHANGED <<tile, img, pixel, region, source, resp, edge>>

CallLonLatToTile ==
    /\ pc = "call" /\ op = "LonLatToTile"
    /\ LET r == LonLatToTile(lon, lat, z) IN
        /\ tile' = r.t
        /\ err' = r.err
    /\ pc' = "return"
    /\ UNCHANGED <<libm, bm, op, z, x, y, lon, lat, geo, rect, path, data, url, conn,
                   heap, calls, upd>>
    /\ UNCHANGED <<bounds, img, pixel, region, source, resp, edge>>

CallExtractTile ==
    /\ pc = "call" /\ op = "ExtractTile"
    /\ LET r == ExtractTile(bm, z, x, y) IN
        /\ img' = r.img
        /\ err' = r.err
        /\ region' = r.region
        /\ source' = r.source
        /\ pc' = IF r.panic THEN "panic" ELSE "return"
    /\ UNCHANGED <<libm, bm, op, z, x, y, lon, lat, geo, rect, path, data, url, conn,
                   heap, calls, upd>>
    /\ UNCHANGED <<bounds, tile, pixel, resp, edge>>

CallLonToPixelX ==
    /\ pc = "call" /\ op = "lonToPixelX"
    /\ pixel' = lonToPixelX(lon, bm.width)
    /\ pc' = "return"
    /\ UNCHANGED <<libm, bm, op, z, x, y, lon, lat, geo, rect, path, data, url, conn,
                   heap, calls, upd>>
    /\ UNCHANGED <<bounds, tile, img, region, source, err, resp, edge>>

CallLatToPixelY ==
    /\ pc = "call" /\ op = "latToPixelY"
    /\ pixel' = latToPixelY(lat, bm.height)
    /\ pc' = "return"
    /\ UNCHANGED <<libm, bm, op, z, x, y, lon, lat, geo, rect, path, data, url, conn,
                   heap, calls, upd>>
    /\ UNCHANGED <<bounds, tile, img, region, source, err, resp, edge>>

CallGeoBoundsToPixelBounds ==
    /\ pc = "call" /\ op = "geoBoundsToPixelBounds"
    /\ region' = geoBoundsToPixelBounds(bm, geo)
    /\ pc' = "return"
    /\ UNCHANGED <<libm, bm, op, z, x, y, lon, lat, geo, rect, path, data, url, conn,
                   heap, calls, upd>>
    /\ UNCHANGED <<bounds, tile, img, pixel, source, err, resp, edge>>

CallExtractRegion ==
    /\ pc = "call" /\ op = "extractRegion"
    /\ source' = extractRegion(bm, rect)
    /\ pc' = IF extractRegion(bm, rect).panic THEN "panic" ELSE "return"
    /\ UNCHANGED <<libm, bm, op, z, x, y, lon, lat, geo, rect, path, data, url, conn,
                   heap, calls, upd>>
    /\ UNCHANGED <<bounds, tile, img, pixel, region, err, resp, edge>>

CallLoadJPEG ==
    /\ pc = "call" /\ op = "LoadJPEG"
    /\ LET r == LoadJPEG(path) IN
        /\ bm' = r.bm
        /\ err' = r.err
    /\ pc' = "return"
    /\ UNCHANGED <<libm, op, z, x, y, lon, lat, geo, rect, path, data, url, conn,
                   heap, calls, upd>>
    /\ UNCHANGED <<bounds, tile, img, pixel, region, source, resp, edge>>

CallLoadJPEGFromBytes ==
    /\ pc = "call" /\ op = "LoadJPEGFromBytes"
    /\ LET r == LoadJPEGFromBytes(data) IN
        /\ bm' = r.bm
        /\ err' = r.err
    /\ pc' = "return"
    /\ UNCHANGED <<libm, op, z, x, y, lon, lat, geo, rect, path, data, url, conn,
                   heap, calls, upd>>
    /\ UNCHANGED <<bounds, tile, img, pixel, region, source, resp, edge>>

CallTileXToLon ==
    /\ pc = "call" /\ op = "tileXToLon"
    /\ edge' = tileXToLonFar(-x, z)
    /\ pc' = "return"
    /\ UNCHANGED <<libm, bm, op, z, x, y, lon, lat, geo, rect, path, data, url, conn,
                   heap, calls, upd>>
    /\ UNCHANGED <<bounds, tile, img, pixel, region, source, err, resp>>

\* parseTilePath: its (z, x, y) are kept in tile
CallParseTilePath ==
    /\ pc = "call" /\ op = "parseTilePath"
    /\ LET r == parseTilePath(url) IN
        /\ tile' = [Z |-> r.t.z, X |-> r.t.x, Y |-> r.t.y]
        /\ err' = r.err
    /\ pc' = "return"
    /\ UNCHANGED <<libm, bm, op, z, x, y, lon, lat, geo, rect, path, data, url, conn,
                   heap, calls, upd>>
    /\ UNCHANGED <<bounds, img, pixel, region, source, resp, edge>>

CallHandleTileRequest ==
    /\ pc = "call" /\ op = "handleTileRequest"
    /\ resp' = handleTileRequest(bm, url, conn)
    /\ pc' = "return"
    /\ UNCHANGED <<libm, bm, op, z, x, y, lon, lat, geo, rect, path, data, url, conn,
                   heap, calls, upd>>
    /\ UNCHANGED <<bounds, tile, img, pixel, region, source, err, edge>>

Next ==
    \/ CallTileBounds
    \/ CallLonLatToTile
    \/ CallExtractTile
    \/ CallLonToPixelX
    \/ CallLatToPixelY
    \/ CallGeoBoundsToPixelBounds
    \/ CallExtractRegion
    \/ CallLoadJPEG
    \/ CallLoadJPEGFromBytes
    \/ CallTileXToLon
    \/ CallParseTilePath
    \/ CallHandleTileRequest

Spec == Init /\ [][Next]_vars

---------------------------------------------------------------------------
\* Calls on one shared BaseMap (package server: one goroutine per request).
\* Each goroutine runs one call; a step is a stretch of the call between
\* two accesses to pixel storage.

\* the goroutines calling at the same time
NumCalls == 2

Goroutines == 1..NumCalls

\* the pixel buffers are numbered in the order of their allocation; the
\* raster's, allocated by the decoder at load time, is the first
RasterBuf == 1

\* a pixel buffer: what it was allocated as, for which goroutine (0: the
\* loader), its size, the goroutines that wrote into it since, its pixels
Buffer(kind, owner, w, h, pix) ==
    [kind |-> kind, owner |-> owner, W |-> w, H |-> h, writers |-> {}, pix |-> pix]

\* the samples the decoder stored for the raster
RasterPix(b) == [p \in Points(b.img.Rect) |-> Sample(b.img, p[1], p[2])]

InitHeap(b) == << Buffer("raster", 0, b.width, b.height, RasterPix(b)) >>

\* a call before its first step: the method, its arguments, its locals
\* (pixelBounds, sourceRegion, tile) and its results
NewCall(o, tz, tx, ty) ==
    [op |-> o, pc |-> "start", z |-> tz, x |-> tx, y |-> ty,
     pixelBounds |-> ZR, src |-> [Rect |-> ZR, buf |-> 0], tile |-> 0,
     ret |-> 0, err |-> NoError]

\* a pixel of a buffer (0 outside what was drawn into it)
PixAt(buf, p) == IF p \in DOMAIN buf.pix THEN buf.pix[p] ELSE 0

\* a write of goroutine c into buffer id
Write(h, id, c, pix) ==
    [h EXCEPT ![id].pix = pix, ![id].writers = @ \cup {c}]

\* a slip: the fallback region kept in one scratch buffer, reused by
\* every call
AllocRegion_Scratch(h, c, r) ==
    IF \E i \in DOMAIN h : h[i].kind = "region"
        THEN [heap |-> h, id |-> CHOOSE i \in DOMAIN h : h[i].kind = "region"]
        ELSE [heap |-> Append(h, Buffer("region", c, Dx(r), Dy(r), << >>)),
              id |-> Len(h) + 1]

\* region := image.NewRGBA(bounds): a new buffer
AllocRegion(h, c, r) ==
    [heap |-> Append(h, Buffer("region", c, Dx(r), Dy(r), << >>)),
     id |-> Len(h) + 1]

\* a slip: the output tile taken from a pool and never given back fresh:
\* every call gets the tile buffer of the first
AllocTile_Pooled(h, c) ==
    IF \E i \in DOMAIN h : h[i].kind = "tile"
        THEN [heap |-> h, id |-> CHOOSE i \in DOMAIN h : h[i].kind = "tile"]
        ELSE [heap |-> Append(h, Buffer("tile", c, TileSize, TileSize, << >>)),
              id |-> Len(h) + 1]

\* tile := image.NewRGBA(image.Rect(0, 0, TileSize, TileSize)): a new
\* buffer, all zero
AllocTile(h, c) ==
    [heap |-> Append(h, Buffer("tile", c, TileSize, TileSize, << >>)),
     id |-> Len(h) + 1]

\* a slip: destination and source of the scaler exchanged
ScaleTarget_Source(call) == IF call.src.buf # 0 THEN call.src.buf ELSE call.tile

\* the destination of the scaler: the tile
ScaleTarget(call) == call.tile

\* the pixels the scaler reads: through a view, the raster's samples as
\* colours; from a copy, the copy's pixels
ReadSource(h, b, call) ==
    IF call.src.buf = RasterBuf
        THEN [p \in Points(call.src.Rect) |->
                 Red16Of(b.img.kind, PixAt(h[RasterBuf], p))]
        ELSE [p \in Points(call.src.Rect) |-> PixAt(h[call.src.buf], p)]

\* the tiles asked for: the world, a quarter, a column out of range
ServeTiles == { <<0, 0, 0>>, <<1, 1, 0>>, <<1, 2, 0>> }

ServeCalls ==
    {NewCall("ExtractTile", t[1], t[2], t[3]) : t \in ServeTiles}
    \cup {NewCall("Width", 0, 0, 0), NewCall("Height", 0, 0, 0)}

\* a decoded JPEG, a raster on the copy path, and a raster of one pixel
ServeRasters ==
    { NewBaseMap(Image("YCbCr", TRUE, 8, 4)),
      NewBaseMap(Image("RGBA", FALSE, 8, 4)),
      NewBaseMap(Image("YCbCr", TRUE, 1, 1)) }

InitServe ==
    /\ InitResults
    /\ op = "serve"
    /\ libm = 0
    /\ bm \in ServeRasters
    /\ z = 0 /\ x = 0 /\ y = 0
    /\ lon = FxZero /\ lat = FxZero
    /\ geo = ZeroBounds /\ rect = ZR
    /\ path = "" /\ data = NoData
    /\ url = << >> /\ conn = TRUE
    /\ heap = InitHeap(bm)
    /\ calls \in [Goroutines -> ServeCalls]
    /\ upd = NoUpdate

\* what the calls on the shared BaseMap leave alone
callVarsButUpd == <<libm, bm, op, pc, z, x, y, lon, lat, geo, rect, path, data, url, conn,
                    bounds, tile, img, pixel, region, source, err, resp, edge>>

callVars == <<callVarsButUpd, upd>>

\* ExtractTile up to pixelBounds: TileBounds and geoBoundsToPixelBounds
StepBounds(c) ==
    /\ calls[c].op = "ExtractTile" /\ calls[c].pc = "start"
    /\ LET r == TileBounds(calls[c].z, calls[c].x, calls[c].y) IN
        IF r.err # NoError THEN
            calls' = [calls EXCEPT ![c].pc = "done",
                         ![c].err = <<"invalid tile coordinates">> \o r.err]
        ELSE
            calls' = [calls EXCEPT ![c].pc = "region",
                         ![c].pixelBounds = geoBoundsToPixelBounds(bm, r.b)]
    /\ UNCHANGED <<heap, callVars>>

\* sourceRegion := bm.extractRegion(pixelBounds), a view of the raster
StepView(c) ==
    /\ calls[c].op = "ExtractTile" /\ calls[c].pc = "region"
    /\ bm.img.sub
    /\ LET t == Intersect(calls[c].pixelBounds, bm.img.Rect) IN
        calls' = [calls EXCEPT ![c].pc = "alloc",
                     ![c].src = [Rect |-> t,
                                 buf |-> IF RectEmpty(t) THEN 0 ELSE RasterBuf]]
    /\ UNCHANGED <<heap, callVars>>

\* sourceRegion := bm.extractRegion(pixelBounds), the copy: a new buffer,
\* the pixels of the raster drawn into it
StepCopy(c) ==
    /\ calls[c].op = "ExtractTile" /\ calls[c].pc = "region"
    /\ ~bm.img.sub
    /\ LET r == calls[c].pixelBounds
           a == AllocRegion(heap, c, r)
           pix == [p \in Points(r) |->
                      Stored8(Red16Of(bm.img.kind, PixAt(heap[RasterBuf], p)))]
       IN  /\ heap' = Write(a.heap, a.id, c, pix)
           /\ calls' = [calls EXCEPT ![c].pc = "alloc",
                            ![c].src = [Rect |-> r, buf |-> a.id]]
    /\ UNCHANGED callVars

\* tile := image.NewRGBA(...)
StepAlloc(c) ==
    /\ calls[c].op = "ExtractTile" /\ calls[c].pc = "alloc"
    /\ LET a == AllocTile(heap, c) IN
        /\ heap' = a.heap
        /\ calls' = [calls EXCEPT ![c].pc = "scale", ![c].tile = a.id]
    /\ UNCHANGED callVars

\* xdraw.CatmullRom.Scale(tile, ..., sourceRegion, ...); return tile, nil.
\* The tile's pixels are a function of the source pixels read; they are
\* kept as those pixels.
StepScale(c) ==
    /\ calls[c].op = "ExtractTile" /\ calls[c].pc = "scale"
    /\ IF Dx(calls[c].src.Rect) <= 0 \/ Dy(calls[c].src.Rect) <= 0
           THEN heap' = heap
           ELSE heap' = Write(heap, ScaleTarget(calls[c]), c,
                              ReadSource(heap, bm, calls[c]))
    /\ calls' = [calls EXCEPT ![c].pc = "done"]
    /\ UNCHANGED callVars

\* Width
StepWidth(c) ==
    /\ calls[c].op = "Width" /\ calls[c].pc = "start"
    /\ calls' = [calls EXCEPT ![c].pc = "done", ![c].ret = bm.width]
    /\ UNCHANGED <<heap, callVars>>

\* Height
StepHeight(c) ==
    /\ calls[c].op = "Height" /\ calls[c].pc = "start"
    /\ calls' = [calls EXCEPT ![c].pc = "done", ![c].ret = bm.height]
    /\ UNCHANGED <<heap, callVars>>

\* what a caller may write into a tile it owns
Scribble == [p \in {<<0, 0>>} |-> -1]

\* the caller of ExtractTile, owner of the returned tile, writes into it
StepCallerWrites(c) ==
    /\ calls[c].op = "ExtractTile" /\ calls[c].pc = "done"
    /\ calls[c].err = NoError
    /\ heap' = Write(heap, calls[c].tile, c, Scribble)
    /\ calls' = [calls EXCEPT ![c].pc = "written"]
    /\ UNCHANGED callVars

NextServe ==
    \E c \in Goroutines :
        \/ StepBounds(c)
        \/ StepView(c)
        \/ StepCopy(c)
        \/ StepAlloc(c)
        \/ StepScale(c)
        \/ StepWidth(c)
        \/ StepHeight(c)
        \/ StepCallerWrites(c)

Serve == InitServe /\ [][NextServe]_vars

---------------------------------------------------------------------------
\* The update command (src/cmd/update.go), step by step: the lookup of the
\* latest release, the prompt, and the replacement of the binary

Versions == {"1.0.0", "1.1.0"}

\* what selfupdate.DetectLatest returns: an error, no release, or a release
Releases ==
    { [err |-> <<"connection refused">>, found |-> FALSE, version |-> ""],
      [err |-> NoError, found |-> FALSE, version |-> ""] }
    \cup { [err |-> NoError, found |-> TRUE, version |-> v] : v \in Versions }

\* what the user types at the prompt, if anything
Answers ==
    { <<"y", "\n">>, <<"y", "e", "s", "\n">>, <<"Y", "\n">>,
      <<" ", "Y", "e", "s", " ", "\r", "\n">>, <<"n", "\n">>, <<"\n">>,
      <<"n", "o", "\n">>, <<"y", "e", "s", " ", "n", "o", "\n">>,
      <<"y">>, << >> }

InitUpdate ==
    /\ InitResults
    /\ op = "update"
    /\ libm = 0
    /\ bm = NoBaseMap
    /\ z = 0 /\ x = 0 /\ y = 0
    /\ lon = FxZero /\ lat = FxZero
    /\ geo = ZeroBounds /\ rect = ZR
    /\ path = "" /\ data = NoData
    /\ url = << >> /\ conn = TRUE
    /\ heap = << >>
    /\ calls = << >>
    /\ upd \in { NewUpdate(c, d, dry, skip, in, exe, asset) :
                   c \in Versions \cup {"dev"}, d \in Releases,
                   dry \in BOOLEAN, skip \in BOOLEAN, in \in Answers,
                   exe \in BOOLEAN, asset \in BOOLEAN }

\* selfupdate.DetectLatest and what follows it up to the prompt
StepDetect ==
    /\ upd.pc = "detect"
    /\ IF upd.release.err # NoError THEN
           upd' = [upd EXCEPT !.pc = "done",
                      !.ret = <<"error checking for updates">> \o upd.release.err]
       ELSE IF ~upd.release.found THEN
           upd' = [upd EXCEPT !.pc = "done", !.ret = <<"no releases found">>]
       ELSE IF upd.currentVersion = upd.release.version THEN
           upd' = [upd EXCEPT !.pc = "done"]
       ELSE IF upd.dryRun THEN
           upd' = [upd EXCEPT !.pc = "done"]
       ELSE IF ~upd.yes THEN
           upd' = [upd EXCEPT !.pc = "confirm"]
       ELSE
           upd' = [upd EXCEPT !.pc = "apply"]
    /\ UNCHANGED <<heap, calls, callVarsButUpd>>

\* the prompt: the answer is read from standard input
StepConfirm ==
    /\ upd.pc = "confirm"
    /\ LET r == ReadString(upd.stdin) IN
        IF r.err # NoError THEN
            upd' = [upd EXCEPT !.pc = "done",
                       !.ret = <<"error reading input">> \o r.err]
        ELSE IF ~Confirmed(r.s) THEN
            upd' = [upd EXCEPT !.pc = "done"]
        ELSE
            upd' = [upd EXCEPT !.pc = "apply"]
    /\ UNCHANGED <<heap, calls, callVarsButUpd>>

\* os.Executable and selfupdate.UpdateTo
StepApply ==
    /\ upd.pc = "apply"
    /\ IF ~upd.executable THEN
           upd' = [upd EXCEPT !.pc = "done",
                      !.ret = <<"could not locate executable">>]
       ELSE
           upd' = [upd EXCEPT !.pc = "done", !.updateTo = TRUE,
                      !.ret = IF upd.asset THEN NoError
                              ELSE <<"error updating binary">>]
    /\ UNCHANGED <<heap, calls, callVarsButUpd>>

NextUpdate ==
    \/ StepDetect
    \/ StepConfirm
    \/ StepApply

Update == InitUpdate /\ [][NextUpdate]_vars

---------------------------------------------------------------------------
\* The claims

\* v < 2^e, for the integers v of the model (all below 2^31)
Below2Pow(v, e) == e > 30 \/ v < 2^e

\* 0 <= v < 2^e
InGrid(v, e) == v >= 0 /\ Below2Pow(v, e)

Returned(o) == op = o /\ pc = "return"

ZoomError == <<"zoom level must be >= 0">>
ColumnError == <<"x tile must be in range">>
RowError == <<"y tile must be in range">>
LongitudeError == <<"longitude must be in range [-180, 180]">>

\* C1 (as stated): TileBounds validates zoom, column, row in this order
\* and reports the first failure: a zoom error when z < 0, otherwise a
\* column error when x is outside [0, 2^z), otherwise a row error when y is
\* outside [0, 2^z); it returns bounds and no error exactly when z >= 0,
\* 0 <= x < 2^z and 0 <= y < 2^z.
C1_ValidationOrder ==
    Returned("TileBounds") =>
        /\ z < 0 => err = ZoomError
        /\ (z >= 0 /\ ~InGrid(x, z)) => err = ColumnError
        /\ (z >= 0 /\ InGrid(x, z) /\ ~InGrid(y, z)) => err = RowError
        /\ err = NoError <=> (z >= 0 /\ InGrid(x, z) /\ InGrid(y, z))

\* C2: for every tile TileBounds accepts, with n = 2^z, West is
\* x/n*360 - 180 and East is (x+1)/n*360 - 180, whatever the row.
C2_LongitudeEdges ==
    (Returned("TileBounds") /\ err = NoError) =>
        /\ bounds.West = FxSub(FxMulInt(FxDivInt(FxInt(360), 2^z), x), FxInt(180))
        /\ bounds.East = FxSub(FxMulInt(FxDivInt(FxInt(360), 2^z), x + 1), FxInt(180))
        /\ \A r \in 0..(2^z - 1) :
              /\ TileBounds(z, x, r).b.West = bounds.West
              /\ TileBounds(z, x, r).b.East = bounds.East

\* C2's case: an accepted tile off the west edge, at the deepest zoom
C2_Witness ==
    Returned("TileBounds") /\ err = NoError /\ z = MaxZoom /\ x = 3 /\ y = 1

\* C3: neighbouring tiles share their edge exactly: East of (z,x,y) is West
\* of (z,x+1,y) when x+1 < 2^z, and South of (z,x,y) is North of (z,x,y+1)
\* when y+1 < 2^z.
C3_SharedEdges ==
    (Returned("TileBounds") /\ err = NoError) =>
        /\ Below2Pow(x + 1, z) =>
              /\ TileBounds(z, x + 1, y).err = NoError
              /\ bounds.East = TileBounds(z, x + 1, y).b.West
        /\ Below2Pow(y + 1, z) =>
              /\ TileBounds(z, x, y + 1).err = NoError
              /\ bounds.South = TileBounds(z, x, y + 1).b.North

\* C3's case: a tile with a neighbour to the east and one to the south
C3_Witness ==
    /\ Returned("TileBounds") /\ err = NoError
    /\ z = 2 /\ x = 1 /\ y = 2
    /\ bounds.East = FxZero

\* C4 (as stated): the outer edges of the grid are the world extent exactly:
\* West = -180 in column 0, East = 180 in column n-1, North = MaxLatitude in
\* row 0 and South = -MaxLatitude in row n-1.
C4_WorldExtent ==
    (Returned("TileBounds") /\ err = NoError) =>
        /\ x = 0 => bounds.West = FxInt(-180)
        /\ x = 2^z - 1 => bounds.East = FxInt(180)
        /\ y = 0 => bounds.North = MaxLatitude
        /\ y = 2^z - 1 => bounds.South = FxNeg(MaxLatitude)

\* C5 (as stated): round trip. For every zoom z >= 0, lon in [-180, 180]
\* and lat in [-MaxLatitude, MaxLatitude], LonLatToTile succeeds with a tile
\* that TileBounds accepts and whose bounds contain the point:
\* West <= lon <= East and South <= lat <= North.
C5_RoundTrip ==
    (/\ Returned("LonLatToTile") /\ z >= 0
     /\ FxLe(FxInt(-180), lon) /\ FxLe(lon, FxInt(180))
     /\ FxLe(FxNeg(MaxLatitude), lat) /\ FxLe(lat, MaxLatitude)) =>
        /\ err = NoError
        /\ LET r == TileBounds(tile.Z, tile.X, tile.Y) IN
            /\ r.err = NoError
            /\ FxLe(r.b.West, lon) /\ FxLe(lon, r.b.East)
            /\ FxLe(r.b.South, lat) /\ FxLe(lat, r.b.North)

\* C6: LonLatToTile returns an error exactly when z < 0 (the zoom error,
\* checked first) or lon is outside [-180, 180] (the longitude error); no
\* latitude makes it return an error.
C6_Errors ==
    Returned("LonLatToTile") =>
        /\ z < 0 => err = ZoomError
        /\ (z >= 0 /\ (FxLt(lon, FxInt(-180)) \/ FxGt(lon, FxInt(180))))
              => err = LongitudeError
        /\ (z >= 0 /\ FxLe(FxInt(-180), lon) /\ FxLe(lon, FxInt(180)))
              => err = NoError

\* C6's case: a latitude beyond the pole is accepted
C6_Witness ==
    Returned("LonLatToTile") /\ lat = FxInt(100) /\ err = NoError /\ z = MaxZoom

\* C7: latitude clamping. With lon and z fixed, every lat >= MaxLatitude
\* gives the tile of lat = MaxLatitude, and every lat <= -MaxLatitude the
\* tile of lat = -MaxLatitude.
C7_Clamping ==
    (Returned("LonLatToTile") /\ err = NoError) =>
        /\ FxLe(MaxLatitude, lat) =>
              tile = LonLatToTile(lon, MaxLatitude, z).t
        /\ FxLe(lat, FxNeg(MaxLatitude)) =>
              tile = LonLatToTile(lon, FxNeg(MaxLatitude), z).t

\* C7's case: a latitude beyond the south pole, clamped to the last row
C7_Witness ==
    /\ Returned("LonLatToTile") /\ err = NoError
    /\ lat = FxInt(-100) /\ z = MaxZoom /\ tile.Y = 2^MaxZoom - 1

\* C8 (as stated): for every zoom z >= 0 and every input LonLatToTile
\* accepts, the tile has Z = z, 0 <= X <= 2^z - 1 and 0 <= Y <= 2^z - 1, so
\* that TileBounds accepts it; lon = 180 gives X = 2^z - 1.
C8_TileInGrid ==
    (Returned("LonLatToTile") /\ err = NoError) =>
        /\ tile.Z = z
        /\ InGrid(tile.X, z) /\ InGrid(tile.Y, z)
        /\ TileBounds(tile.Z, tile.X, tile.Y).err = NoError
        /\ lon = FxInt(180) => (z <= 30 /\ tile.X = 2^z - 1)

C10_ErrorUnchanged ==
    Returned("ExtractTile") =>
        /\ err # NoError <=> TileBounds(z, x, y).err # NoError
        /\ err # NoError => (img = NoImage /\ err = TileBounds(z, x, y).err)

\* C10 (amended): ExtractTile fails exactly when TileBounds fails; then it
\* returns no tile and an error that wraps the error of TileBounds: its own
\* message "invalid tile coordinates", then the error of TileBounds as cause.
C10_ErrorWrapped ==
    Returned("ExtractTile") =>
        /\ err # NoError <=> TileBounds(z, x, y).err # NoError
        /\ err # NoError =>
              /\ img = NoImage
              /\ Head(err) = "invalid tile coordinates"
              /\ Tail(err) = TileBounds(z, x, y).err

\* C10's case: a row out of range, the error of TileBounds as the cause
C10_Witness ==
    /\ Returned("ExtractTile") /\ z = 1 /\ x = 0 /\ y = 2
    /\ err = <<"invalid tile coordinates", "y tile must be in range">>
    /\ img = NoImage

\* C11: for every tile TileBounds accepts and every raster, ExtractTile
\* returns no error and a tile of exactly TileSize x TileSize = 512 x 512
\* pixels, at zoom 0 and at the deeper zooms, also where the tile's pixel
\* region has zero width or zero height.
C11_TileSize ==
    (Returned("ExtractTile") /\ TileBounds(z, x, y).err = NoError) =>
        /\ err = NoError
        /\ img.W = TileSize /\ img.H = TileSize
        /\ img.W = 512 /\ img.H = 512

\* C11's case: a tile at the deepest zoom whose pixel region is empty
C11_Witness ==
    /\ Returned("ExtractTile") /\ err = NoError
    /\ z = MaxZoom /\ bm.width = 1 /\ RectEmpty(region)
    /\ img.W = TileSize /\ img.H = TileSize

\* C12 (as stated): when the pixel region of a tile clamps to zero width or
\* zero height, the region handed to the resampler is at least one pixel
\* wide and one pixel high, and the output tile is filled from source
\* pixels, not left untouched.
C12_DegenerateRegion ==
    (Returned("ExtractTile") /\ err = NoError /\ RectEmpty(region)) =>
        /\ Dx(source.Rect) >= 1 /\ Dy(source.Rect) >= 1
        /\ img.drawn

\* C13 (as stated): lonToPixelX(lon, width) is floor((lon+180)/360 * width)
\* and latToPixelY(lat, height) is floor((90-lat)/180 * height) for every
\* input, also where the value before rounding is negative.
C13_PixelFloor ==
    /\ Returned("lonToPixelX") =>
          pixel = FxFloor(FxMulInt(FxDivInt(FxAdd(lon, FxInt(180)), 360), bm.width))
    /\ Returned("latToPixelY") =>
          pixel = FxFloor(FxMulInt(FxDivInt(FxSub(FxInt(90), lat), 180), bm.height))

\* C13 (amended): the value v before rounding, (lon+180)/360 * width or
\* (90-lat)/180 * height, is rounded toward zero: the result is floor(v) for
\* v >= 0 (lon >= -180, lat <= 90) and -floor(-v), the ceiling, for v < 0
\* (lon < -180, lat > 90).
C13_PixelTowardZero ==
    /\ Returned("lonToPixelX") =>
          LET v == FxMulInt(FxDivInt(FxAdd(lon, FxInt(180)), 360), bm.width) IN
          /\ FxLe(FxZero, v) => pixel = FxFloor(v)
          /\ FxLt(v, FxZero) => pixel = -FxFloor(FxNeg(v))
    /\ Returned("latToPixelY") =>
          LET v == FxMulInt(FxDivInt(FxSub(FxInt(90), lat), 180), bm.height) IN
          /\ FxLe(FxZero, v) => pixel = FxFloor(v)
          /\ FxLt(v, FxZero) => pixel = -FxFloor(FxNeg(v))

\* C13's case: a longitude west of -180, where the floor would be -1
C13_Witness ==
    Returned("lonToPixelX") /\ lon = FxInt(-181) /\ bm.width = 8 /\ pixel = 0

\* C14: for any geographic bounds, in range or not, in order or not, the
\* rectangle of geoBoundsToPixelBounds has 0 <= left <= right <= width and
\* 0 <= top <= bottom <= height.
C14_RegionInRaster ==
    Returned("geoBoundsToPixelBounds") =>
        /\ 0 <= region.MinX /\ region.MinX <= region.MaxX /\ region.MaxX <= bm.width
        /\ 0 <= region.MinY /\ region.MinY <= region.MaxY /\ region.MaxY <= bm.height

\* C14's case: bounds far out of range and in the wrong order
C14_Witness ==
    /\ Returned("geoBoundsToPixelBounds")
    /\ geo.West = FxInt(540) /\ geo.East = FxInt(-540)
    /\ geo.North = FxInt(-270) /\ geo.South = FxInt(270)
    /\ region = Rect(0, 0, bm.width, bm.height) /\ bm.width = 16

\* C15: for every tile TileBounds accepts, the pixel region is Left =
\* pixelX(West), Right = pixelX(East), Top = pixelY(North), Bottom =
\* pixelY(South), with Left <= Right and Top <= Bottom before the rectangle
\* is put in order, and with nothing for the clamp to do.
C15_RegionOfTile ==
    (Returned("ExtractTile") /\ err = NoError) =>
        LET g == TileBounds(z, x, y).b
            left == lonToPixelX(g.West, bm.width)
            right == lonToPixelX(g.East, bm.width)
            top == latToPixelY(g.North, bm.height)
            bottom == latToPixelY(g.South, bm.height)
        IN  /\ left <= right /\ top <= bottom
            /\ 0 <= left /\ right <= bm.width
            /\ 0 <= top /\ bottom <= bm.height
            /\ region = [MinX |-> left, MinY |-> top, MaxX |-> right, MaxY |-> bottom]

\* C15's case: tile (2, 1, 1) on a 16 x 8 raster, down to the equator
C15_Witness ==
    /\ Returned("ExtractTile") /\ err = NoError
    /\ z = 2 /\ x = 1 /\ y = 1 /\ bm.width = 16
    /\ region.MinX = 4 /\ region.MaxX = 8 /\ region.MaxY = 4
    /\ region.MinY < region.MaxY

\* C16 (as stated): for every rectangle inside the raster bounds
\* extractRegion returns an image with the bounds of the rectangle and, at
\* every coordinate, the pixel value the other path (SubImage view or
\* copy) returns.
C16_ViewEqualsCopy ==
    Returned("extractRegion") =>
        LET other == extractRegion([bm EXCEPT !.img.sub = ~bm.img.sub], rect) IN
        /\ source.Rect = rect /\ other.Rect = rect
        /\ \A p \in Points(rect) : source.at[p] = other.at[p]

\* C16 (as stated), its two parts apart; neither holds: the view of an
\* empty rectangle has the zero rectangle as bounds, and the copy keeps 8
\* bits of a colour that has 16
C16_EmptyRectangleBounds ==
    (Returned("extractRegion") /\ bm.img.sub /\ RectEmpty(rect) /\ rect # ZR) =>
        source.Rect = rect

C16_CopiedColour ==
    (Returned("extractRegion") /\ ~RectEmpty(rect)) =>
        \A p \in Points(rect) : source.at[p] = Red16(bm.img, p[1], p[2])

\* what a call returns when it runs alone
Alone(call) == ExtractTile(bm, call.z, call.x, call.y)

ExtractTileCall(c) == calls[c].op = "ExtractTile"

\* the call of goroutine c has returned a tile
ReturnedTile(c) ==
    ExtractTileCall(c) /\ calls[c].pc \in {"done", "written"} /\ calls[c].err = NoError

\* C17: in every interleaving of the calls on one BaseMap, with no lock,
\* each call only reads the raster, writes only into buffers it allocated
\* itself (its copied region, its tile), and returns what it returns when
\* run alone: the same error, or a tile of the same size with the same
\* pixels.
C17_Interleaved ==
    op = "serve" =>
        /\ heap[RasterBuf].writers = {}
        /\ heap[RasterBuf].pix = RasterPix(bm)
        /\ \A i \in DOMAIN heap : heap[i].writers \subseteq {heap[i].owner}
        /\ \A c \in Goroutines :
              (ExtractTileCall(c) /\ calls[c].pc = "done") =>
                  /\ calls[c].err = Alone(calls[c]).err
                  /\ calls[c].err # NoError => calls[c].tile = 0
                  /\ calls[c].err = NoError =>
                        /\ calls[c].tile \in DOMAIN heap
                        /\ heap[calls[c].tile].W = Alone(calls[c]).img.W
                        /\ heap[calls[c].tile].H = Alone(calls[c]).img.H
                        /\ heap[calls[c].tile].pix = Alone(calls[c]).source.at

\* C17's case: goroutine 1 allocated its tile first and has not scaled yet,
\* goroutine 2 started later, overtook it and returned a drawn tile
C17_Witness ==
    /\ op = "serve" /\ NumCalls >= 2
    /\ ExtractTileCall(1) /\ calls[1].pc = "scale"
    /\ ReturnedTile(2) /\ calls[2].pc = "done"
    /\ calls[1].tile < calls[2].tile
    /\ heap[calls[2].tile].pix # << >>
    /\ <<calls[1].z, calls[1].x>> # <<calls[2].z, calls[2].x>>

\* Width() and Height() return the dimensions of the decoded image
C18_WidthHeight ==
    op = "serve" =>
        /\ bm = NewBaseMap(bm.img)
        /\ \A c \in Goroutines :
              /\ (calls[c].op = "Width" /\ calls[c].pc = "done")
                    => calls[c].ret = Dx(bm.img.Rect)
              /\ (calls[c].op = "Height" /\ calls[c].pc = "done")
                    => calls[c].ret = Dy(bm.img.Rect)

\* C18: after the load no step of any call (ExtractTile with valid or
\* invalid arguments, with its calls of geoBoundsToPixelBounds and
\* extractRegion, Width, Height, a caller writing into its tile) changes
\* the BaseMap's image, bounds, width or height, or the pixels of the
\* raster; Width() and Height() return the dimensions of the decoded image
\* throughout.
C18_RasterImmutable ==
    /\ []C18_WidthHeight
    /\ [][op = "serve" => (bm' = bm /\ heap'[RasterBuf] = heap[RasterBuf])]_vars

\* C18's case: the tile of a call on the view path is drawn and written
\* into by its caller, a call with a column out of range has failed, the
\* raster is as loaded
C18_Witness ==
    /\ op = "serve" /\ NumCalls >= 2
    /\ bm.img.sub /\ bm.width = 8
    /\ calls[1].pc = "written" /\ calls[1].src.buf = RasterBuf
    /\ ExtractTileCall(2) /\ calls[2].pc = "done" /\ calls[2].err # NoError
    /\ heap[RasterBuf] = InitHeap(bm)[RasterBuf]

\* C19: the tile a successful ExtractTile returns is a buffer allocated by
\* that call: it is not the raster's storage, not the tile or the source
\* region of any other call; when its caller writes into it, the raster and
\* the tiles the other calls returned keep their pixels.
C19_FreshTile ==
    op = "serve" =>
        \A c \in Goroutines : ReturnedTile(c) =>
            /\ calls[c].tile # RasterBuf
            /\ heap[calls[c].tile].kind = "tile"
            /\ heap[calls[c].tile].owner = c
            /\ \A d \in Goroutines \ {c} :
                  /\ calls[d].tile # calls[c].tile
                  /\ calls[d].src.buf # calls[c].tile
            /\ calls[c].pc = "written" =>
                  /\ heap[RasterBuf].pix = RasterPix(bm)
                  /\ \A d \in Goroutines \ {c} :
                        (ReturnedTile(d) /\ calls[d].pc = "done") =>
                            heap[calls[d].tile].pix = Alone(calls[d]).source.at

\* C19's case: two calls for the same tile; the caller of the first has
\* written into its tile, the tile of the second is drawn and intact
C19_Witness ==
    /\ op = "serve" /\ NumCalls >= 2
    /\ ReturnedTile(1) /\ calls[1].pc = "written"
    /\ ReturnedTile(2) /\ calls[2].pc = "done"
    /\ <<calls[1].z, calls[1].x, calls[1].y>> = <<calls[2].z, calls[2].x, calls[2].y>>
    /\ heap[calls[1].tile].pix = Scribble
    /\ heap[calls[2].tile].pix # << >>
    /\ heap[calls[2].tile].pix = Alone(calls[2]).source.at

\* the two outcomes of a load
LoadedAs(image) ==
    /\ err = NoError
    /\ ~bm.nil /\ bm.img = image /\ image.kind # "nil"
    /\ bm.bounds = image.Rect
    /\ bm.width = Dx(image.Rect) /\ bm.height = Dy(image.Rect)

FailedWith(message, cause) ==
    /\ bm = NoBaseMap
    /\ err # NoError /\ cause # NoError
    /\ err = <<message>> \o cause

\* C20: LoadJPEG and LoadJPEGFromBytes return either a BaseMap with all
\* four fields set from the decoded image and a nil error, or a nil BaseMap
\* and an error that wraps the cause (the error of os.Open or of the
\* decoder); a missing file, data that is not a JPEG and a JPEG cut short
\* give the error.
C20_LoadAllOrNothing ==
    /\ Returned("LoadJPEG") =>
          /\ \/ LoadedAs(jpegDecode(osOpen(path).f).img)
             \/ FailedWith("failed to open image", osOpen(path).err)
             \/ FailedWith("failed to decode JPEG", jpegDecode(osOpen(path).f).err)
          /\ path \notin DOMAIN Files => err # NoError
          /\ (path \in DOMAIN Files /\ Files[path].format \notin {"jpeg", "jpeg-grey"})
                => err # NoError
          /\ (path \in DOMAIN Files /\ ~Files[path].complete) => err # NoError
          /\ err = NoError => (bm.width = Files[path].w /\ bm.height = Files[path].h)
    /\ Returned("LoadJPEGFromBytes") =>
          /\ \/ LoadedAs(jpegDecode(data).img)
             \/ FailedWith("failed to decode JPEG from bytes", jpegDecode(data).err)
          /\ (data.format \notin {"jpeg", "jpeg-grey"} \/ ~data.complete) => err # NoError
          /\ err = NoError => (bm.width = data.w /\ bm.height = data.h)

\* C20's case: a file that is there and is not a JPEG
C20_Witness ==
    /\ Returned("LoadJPEG") /\ path = "notes.txt"
    /\ bm = NoBaseMap
    /\ err = <<"failed to decode JPEG", "invalid JPEG format: missing SOI marker">>


\* the mirror row of row r at zoom e: n - 1 - r
MirrorRow(r, e) == 2^e - 1 - r

\* C24's symmetry: the latitude of edge n - r is minus that of edge r, the
\* edge n/2 is latitude 0, and the bounds of (z, x, n-1-y) are those of
\* (z, x, y) with North and South negated and swapped.
C24_Antisymmetry ==
    (Returned("TileBounds") /\ err = NoError) =>
        /\ \A r \in 0..(2^z) : tileYToLat(2^z - r, 2^z) = FxNeg(tileYToLat(r, 2^z))
        /\ z >= 1 => tileYToLat(2^(z - 1), 2^z) = FxZero
        /\ LET m == TileBounds(z, x, MirrorRow(y, z)) IN
            /\ m.err = NoError
            /\ m.b.West = bounds.West /\ m.b.East = bounds.East
            /\ m.b.North = FxNeg(bounds.South)
            /\ m.b.South = FxNeg(bounds.North)

\* C24 (as stated): the symmetry above, and hence TileBounds(1, 0, 0) =
\* {-180, 0, 0, MaxLatitude} and TileBounds(1, 1, 1) = {0, -MaxLatitude,
\* 180, 0} (West, South, East, North).
C24_Mirror ==
    /\ C24_Antisymmetry
    /\ (Returned("TileBounds") /\ z = 1 /\ x = 0 /\ y = 0) =>
          bounds = [West |-> FxInt(-180), South |-> FxZero,
                    East |-> FxZero, North |-> MaxLatitude]
    /\ (Returned("TileBounds") /\ z = 1 /\ x = 1 /\ y = 1) =>
          bounds = [West |-> FxZero, South |-> FxNeg(MaxLatitude),
                    East |-> FxInt(180), North |-> FxZero]

\* C26 (as stated): for every zoom z >= 0 the tile count n is the positive
\* integer 2^z, so TileBounds(z, 0, 0) succeeds for every z >= 0, also at
\* z = 63 and z = 64.
C26_TileCount ==
    (Returned("TileBounds") /\ z >= 0) =>
        /\ Shl1(z) > 0
        /\ (x = 0 /\ y = 0) => err = NoError

\* max(lo, min(hi, v)), on the integers
Clamped(v, lo, hi) == IF v < lo THEN lo ELSE IF v > hi THEN hi ELSE v

\* floor((lon + 180) / 360 * width)
FloorPixelX(plon, w) ==
    FxFloor(FxMulInt(FxDivInt(FxAdd(plon, FxInt(180)), 360), w))

\* floor((90 - lat) / 180 * height)
FloorPixelY(plat, h) ==
    FxFloor(FxMulInt(FxDivInt(FxSub(FxInt(90), plat), 180), h))

\* C27: truncation followed by the clamp equals floor followed by the
\* clamp: geoBoundsToPixelBounds returns the rectangle of
\* clamp(floor((lon+180)/360*width), 0, width) for West and East and
\* clamp(floor((90-lat)/180*height), 0, height) for North and South.
C27_TruncThenClamp ==
    Returned("geoBoundsToPixelBounds") =>
        region = Rect(Clamped(FloorPixelX(geo.West, bm.width), 0, bm.width),
                      Clamped(FloorPixelY(geo.North, bm.height), 0, bm.height),
                      Clamped(FloorPixelX(geo.East, bm.width), 0, bm.width),
                      Clamped(FloorPixelY(geo.South, bm.height), 0, bm.height))

\* C27's case: bounds whose west and north edges lie outside the world by
\* less than a pixel, where truncation gives 0 and floor gives -1, and
\* whose east edge is clamped from above
C27_Witness ==
    /\ Returned("geoBoundsToPixelBounds")
    /\ geo.West = FxInt(-181) /\ geo.North = FxInt(100) /\ geo.East = FxInt(540)
    /\ geo.South = FxInt(-60)
    /\ lonToPixelX(geo.West, bm.width) = 0 /\ FloorPixelX(geo.West, bm.width) = -1
    /\ latToPixelY(geo.North, bm.height) = 0 /\ FloorPixelY(geo.North, bm.height) = -1
    /\ region.MinX = 0 /\ region.MinY = 0 /\ region.MaxX = bm.width

\* the pixel region of tile (e, c, r) on the raster of bm
RegionOf(e, c, r) == geoBoundsToPixelBounds(bm, TileBounds(e, c, r).b)

\* C28: the pixel regions of neighbouring tiles abut: Right of (x, y) is
\* Left of (x+1, y), Bottom of (x, y) is Top of (x, y+1), column 0 has
\* Left = 0 and the last column has Right = width.
C28_RegionsAbut ==
    (Returned("ExtractTile") /\ err = NoError) =>
        /\ region = RegionOf(z, x, y)
        /\ x + 1 < 2^z => region.MaxX = RegionOf(z, x + 1, y).MinX
        /\ y + 1 < 2^z => region.MaxY = RegionOf(z, x, y + 1).MinY
        /\ x = 0 => region.MinX = 0
        /\ x = 2^z - 1 => region.MaxX = bm.width

\* C28's case: tile (2, 1, 1) on a 16 x 8 raster, with neighbours to the
\* east and to the south
C28_Witness ==
    /\ Returned("ExtractTile") /\ err = NoError
    /\ z = 2 /\ x = 1 /\ y = 1 /\ bm.width = 16
    /\ region.MaxX = 8 /\ RegionOf(2, 2, 1).MinX = 8
    /\ region.MaxY = 4 /\ RegionOf(2, 1, 2).MinY = 4
    /\ ~RectEmpty(region)

\* the four children of tile (e, c, r): (e+1, 2c+i, 2r+j)
Children(e, c, r) == { <<e + 1, 2 * c + i, 2 * r + j>> : i \in {0, 1}, j \in {0, 1} }

C21_Outcomes ==
    Returned("handleTileRequest") =>
        LET parsed == parseTilePath(url)
            t == parsed.t
            extracted == ExtractTile(bm, t.z, t.x, t.y)
        IN  /\ resp.code \in {StatusBadRequest, StatusNotFound, StatusOK}
            /\ parsed.err # NoError => resp.code = StatusBadRequest
            /\ (parsed.err = NoError /\ extracted.err # NoError) =>
                  resp.code = StatusNotFound
            /\ (parsed.err = NoError
                    /\ (t.z < 0 \/ ~InGrid(t.x, t.z) \/ ~InGrid(t.y, t.z))) =>
                  resp.code = StatusNotFound
            /\ (parsed.err = NoError /\ extracted.err = NoError) =>
                  /\ resp.code = StatusOK
                  /\ resp.sent.ContentType = "image/png"
                  /\ resp.sent.CacheControl = "public, max-age=86400"

\* the path /z/x/y.png of the integers a, b, c
TilePathOf(a, b, c) ==
    << Slash >> \o Join(<<Itoa(a), Itoa(b), Itoa(c)>>, Slash) \o DotPng

\* C21's case: a request whose row is outside the grid of its zoom,
\* answered 404
C21_Witness ==
    /\ Returned("handleTileRequest")
    /\ url = TilePathOf(1, 1, 2)
    /\ resp.code = StatusNotFound

\* the decimal numeral of an int: an optional sign, then digits only, at
\* least one, and no more significant ones than an int has
IsInteger(s) ==
    LET ds == IF s # << >> /\ s[1] \in {"+", "-"} THEN Tail(s) ELSE s IN
    /\ ds # << >>
    /\ \A i \in 1..Len(ds) : IsDigit(ds[i])
    /\ Len(Significant(ds)) <= MaxIntDigits

\* the paths C22 says are accepted
WellFormed(p) ==
    LET q == IF p # << >> /\ p[1] = Slash THEN Tail(p) ELSE p
        parts == Split(q, Slash)
    IN  /\ Len(parts) = 3
        /\ IsInteger(parts[1])
        /\ IsInteger(parts[2])
        /\ HasSuffix(parts[3], DotPng)
        /\ IsInteger(SubSeq(parts[3], 1, Len(parts[3]) - Len(DotPng)))

\* C22: parseTilePath accepts a path exactly when, after removing one
\* optional leading slash, it has three '/'-separated parts, the first two
\* parse as integers and the third ends in '.png' with an integer before
\* the suffix; it maps '/z/x/y.png' and 'z/x/y.png' back to (z, x, y), and
\* it returns an error for a missing or extra part, a non-numeric part, a
\* '.jpg' extension or no extension.
C22_ParseTilePath ==
    Returned("parseTilePath") =>
        /\ err = NoError <=> WellFormed(url)
        /\ \A a, b, c \in PathInts :
              url \in {TilePathOf(a, b, c), Tail(TilePathOf(a, b, c))} =>
                  /\ err = NoError
                  /\ tile = [Z |-> a, X |-> b, Y |-> c]
        /\ Len(Split(TrimPrefix(url, << Slash >>), Slash)) # 3 => err # NoError
        /\ ~HasSuffix(url, DotPng) => err # NoError
        /\ err # NoError => tile = ZeroTile

\* C22's case: the path -1/64/2.png, without a leading slash, is accepted
\* as (-1, 64, 2)
C22_Witness ==
    /\ Returned("parseTilePath")
    /\ url = Tail(TilePathOf(-1, IntBits, 2))
    /\ err = NoError
    /\ tile = [Z |-> -1, X |-> IntBits, Y |-> 2]

\* C23 at the zooms 0..MaxZoom: West < East and South < North on every
\* accepted tile, the tile of zoom 0 spanning -180..180
C23_NearZooms ==
    (Returned("TileBounds") /\ err = NoError) =>
        /\ FxLt(bounds.West, bounds.East)
        /\ FxLt(bounds.South, bounds.North)
        /\ z = 0 => (bounds.West = FxInt(-180) /\ bounds.East = FxInt(180))

\* C23 (as stated): for every valid tile at every zoom, West < East and
\* South < North strictly. At a far zoom West is 180 - edge * 2^-44 and
\* East, the west edge of the next column, 180 - tileXToLonFar * 2^-44.
C23_StrictBounds ==
    /\ C23_NearZooms
    /\ Returned("tileXToLon") => edge > tileXToLonFar(-x - 1, z)

\* no call panics, and what a call returns is either a result or an
\* error value
C25_ResultOrError ==
    /\ pc # "panic"
    /\ Returned("TileBounds") => (err = NoError \/ bounds = ZeroBounds)
    /\ Returned("LonLatToTile") => (err = NoError \/ tile = ZeroTile)
    /\ Returned("ExtractTile") =>
          \/ err = NoError /\ img # NoImage
          \/ err # NoError /\ img = NoImage

\* C25: for every (z, x, y) TileBounds and ExtractTile, and for every zoom,
\* longitude and latitude LonLatToTile, terminate with either a result or
\* an error value and never panic.
C25_NoPanic ==
    /\ []C25_ResultOrError
    /\ [][(pc = "call" /\ op \in {"TileBounds", "ExtractTile", "LonLatToTile"})
            => pc' = "return"]_vars

\* C25's case: ExtractTile at the zoom of the wrapped shift with a
\* negative column and row, on a raster that is copied, returns an error
C25_Witness ==
    /\ Returned("ExtractTile")
    /\ z = IntBits /\ x = -1 /\ y = -1
    /\ ~bm.img.sub
    /\ err # NoError /\ img = NoImage

\* the line the user typed, without its line feed
Answer == TrimSuffix(ReadString(upd.stdin).s, <<"\n">>)

\* what comes before UpdateTo, but for the answer
Detected ==
    /\ upd.release.err = NoError
    /\ upd.release.found
    /\ upd.release.version # upd.currentVersion
    /\ ~upd.dryRun

\* C30 (as stated): selfupdate.UpdateTo is called only after a release was
\* detected without error, its version differs from the current one,
\* --dry-run is not set, and either --yes is set or the user answered 'y'
\* or 'yes'; on every other path the command ends without calling it.
C30_UpdateOnlyIfYes ==
    upd.updateTo =>
        /\ Detected
        /\ \/ upd.yes
           \/ /\ ReadString(upd.stdin).err = NoError
              /\ Answer \in { <<"y">>, <<"y", "e", "s">> }

\* C30 (amended): ... or the user answered 'y' or 'yes' in any letter
\* case and with white space around it ignored.
C30_UpdateOnlyIfConsent ==
    upd.updateTo =>
        /\ Detected
        /\ \/ upd.yes
           \/ /\ ReadString(upd.stdin).err = NoError
              /\ TrimSpace(ToLower(Answer)) \in { <<"y">>, <<"y", "e", "s">> }

\* C30's case: the user answers yes at the prompt and the binary is
\* replaced
C30_Witness ==
    /\ upd.updateTo /\ upd.pc = "done"
    /\ ~upd.yes
    /\ upd.stdin = <<"y", "e", "s", "\n">>
    /\ upd.currentVersion = "1.0.0" /\ upd.release.version = "1.1.0"

===========================================================================
